---- MODULE Spec2Model ----
(***************************************************************************)
(* Privilege reconciliation engine of terraform-provider-exasol.           *)
(*                                                                         *)
(* Strings are sequences of one-character strings, so that ToUpper,        *)
(* sorting, joining and validation are computed character by character.    *)
(* The database is an external collaborator: it is modelled by the four    *)
(* catalog views the resources query and by the effect a GRANT or a REVOKE *)
(* has on them.                                                            *)
(***************************************************************************)
EXTENDS Integers, Sequences, FiniteSets, TLC

VARIABLES
    kind,       \* which resource type the managed resource is
    build,      \* which copy of grant_resource.go is compiled in
    server,     \* server variant: ADMIN_OPTION text form, ALL expansion
    decl,       \* the declaration (configuration) last applied
    st,         \* the stored (reconciled) record, or NoRecord
    cat,        \* the catalog views of the database
    last,       \* the last handler call: request, response, statements
    changesLeft,    \* out-of-band changes the external actor may still make
    deleteMutex,\* delete_mutex.go: holder of the process-wide mutex, or 0
    dpc,        \* per Delete call: its position in the handler
    dkind,      \* per Delete call: the resource type being deleted
    args,       \* the inputs a function of the provider is applied to
    result      \* what the function returned for them

vars == <<kind, build, server, decl, st, cat, last, changesLeft, deleteMutex, dpc, dkind,
          args, result>>

lifecycleVars == <<kind, build, server, decl, st, cat, last, changesLeft>>
deleteVars == <<deleteMutex, dpc, dkind>>
applyVars == <<args, result>>

---------------------------------------------------------------------------
(* Bounds of the model.                                                    *)

MaxPrivs == 3
MaxChanges == 1
NumDeleters == 2

---------------------------------------------------------------------------
(* Characters and strings.                                                 *)

Lower == <<"a","b","c","d","e","f","g","h","i","j","k","l","m",
           "n","o","p","q","r","s","t","u","v","w","x","y","z">>
Upper == <<"A","B","C","D","E","F","G","H","I","J","K","L","M",
           "N","O","P","Q","R","S","T","U","V","W","X","Y","Z">>
Digits == <<"0","1","2","3","4","5","6","7","8","9">>

\* Byte order of the characters the model uses (ASCII).
Ascii == <<" ", "\"", "'", ",", ".">> \o Digits \o Upper \o <<"_">> \o Lower \o <<"|">>

InSeq(c, s) == \E i \in DOMAIN s : s[i] = c
IndexOf(c, s) == CHOOSE i \in DOMAIN s : s[i] = c

Ord(c) == IF InSeq(c, Ascii) THEN IndexOf(c, Ascii) ELSE Len(Ascii) + 1

\* strings.ToUpper
UpperChar(c) == IF InSeq(c, Lower) THEN Upper[IndexOf(c, Lower)] ELSE c
ToUpper(s) == [i \in 1..Len(s) |-> UpperChar(s[i])]

\* strings.EqualFold (ASCII)
EqualFold(a, b) == ToUpper(a) = ToUpper(b)

\* Go's string comparison a < b: bytewise lexicographic.
RECURSIVE StrLess(_, _)
StrLess(a, b) ==
    IF b = <<>> THEN FALSE
    ELSE IF a = <<>> THEN TRUE
    ELSE IF Ord(Head(a)) # Ord(Head(b)) THEN Ord(Head(a)) < Ord(Head(b))
    ELSE StrLess(Tail(a), Tail(b))

\* sort.Strings: insertion into a sorted list, then the sort itself.
RECURSIVE InsertSorted(_, _)
InsertSorted(x, l) ==
    IF l = <<>> THEN <<x>>
    ELSE IF StrLess(Head(l), x) THEN <<Head(l)>> \o InsertSorted(x, Tail(l))
    ELSE <<x>> \o l

RECURSIVE SortStrings(_)
SortStrings(l) == IF l = <<>> THEN <<>> ELSE InsertSorted(Head(l), SortStrings(Tail(l)))

\* strings.Join
RECURSIVE Join(_, _)
Join(l, sep) ==
    IF l = <<>> THEN <<>>
    ELSE IF Len(l) = 1 THEN l[1]
    ELSE l[1] \o sep \o Join(Tail(l), sep)

MapUpper(l) == [i \in 1..Len(l) |-> ToUpper(l[i])]
SeqToSet(l) == {l[i] : i \in DOMAIN l}

\* strings.Split(obj, "."): the parts between the dots.
RECURSIVE SplitOn(_, _, _)
SplitOn(s, sep, cur) ==
    IF s = <<>> THEN <<cur>>
    ELSE IF Head(s) = sep THEN <<cur>> \o SplitOn(Tail(s), sep, <<>>)
    ELSE SplitOn(Tail(s), sep, Append(cur, Head(s)))

\* strings.Trim(p, `"`): leading and trailing double quotes removed.
RECURSIVE TrimLeft(_, _)
TrimLeft(s, c) == IF s # <<>> /\ Head(s) = c THEN TrimLeft(Tail(s), c) ELSE s
RECURSIVE TrimRight(_, _)
TrimRight(s, c) ==
    IF s # <<>> /\ s[Len(s)] = c THEN TrimRight(SubSeq(s, 1, Len(s) - 1), c) ELSE s
Trim(s, c) == TrimRight(TrimLeft(s, c), c)

DQ == "\""

\* helpers.go qualify: quote every dot-separated part, keep the dots.
QuoteParts(parts) ==
    Join([i \in 1..Len(parts) |-> <<DQ>> \o Trim(parts[i], DQ) \o <<DQ>>], <<".">>)
qualify(obj) == QuoteParts(SplitOn(obj, ".", <<>>))

\* security.go isValidIdentifier: ^[A-Z][A-Z0-9_]*$ on the uppercased name.
MatchesIdentifier(up) ==
    /\ up # <<>>
    /\ InSeq(up[1], Upper)
    /\ \A i \in 2..Len(up) : InSeq(up[i], Upper) \/ InSeq(up[i], Digits) \/ up[i] = "_"
isValidIdentifier(name) == MatchesIdentifier(ToUpper(name))

---------------------------------------------------------------------------
(* Names used by the declarations of the model.                            *)

n_r1 == <<"r","1">>
n_R1 == <<"R","1">>
n_R2 == <<"R","2">>
Grantees == {n_r1, n_R1, n_R2}

s_CREATE_TABLE == <<"C","R","E","A","T","E"," ","T","A","B","L","E">>
s_CREATE_SCHEMA == <<"C","R","E","A","T","E"," ","S","C","H","E","M","A">>
SystemPrivileges == {s_CREATE_TABLE, s_CREATE_SCHEMA}

n_ROLE_A == <<"R","O","L","E","_","A">>
n_role_b == <<"r","o","l","e","_","b">>
Roles == {n_ROLE_A, n_role_b}

n_CONN_A == <<"C","O","N","N","_","A">>
n_conn_b == <<"c","o","n","n","_","b">>
Connections == {n_CONN_A, n_conn_b}

s_USAGE == <<"U","S","A","G","E">>
s_SELECT == <<"S","E","L","E","C","T">>
s_INSERT == <<"I","N","S","E","R","T">>
s_ALL == <<"A","L","L">>
PrivilegeNames == {s_USAGE, s_SELECT, s_INSERT, s_ALL}

s_SCHEMA == <<"S","C","H","E","M","A">>
s_TABLE == <<"T","A","B","L","E">>
s_ROLE == <<"R","O","L","E">>
ObjectTypes == {s_SCHEMA, s_TABLE}

n_S1 == <<"S","1">>
n_s2 == <<"s","2">>
ObjectNames == {n_S1, n_s2}

s_SYSTEM == <<"S","Y","S","T","E","M">>
s_OBJECT == <<"O","B","J","E","C","T">>

s_true == <<"t","r","u","e">>
s_false == <<"f","a","l","s","e">>
s_TRUE == <<"T","R","U","E">>
s_FALSE == <<"F","A","L","S","E">>
s_1 == <<"1">>
s_0 == <<"0">>

\* types.Bool: null (unset), true or false.
TriState == {"null", "true", "false"}
IsNull(b) == b = "null"
ValueBool(b) == b = "true"

\* No function has been given inputs, or has returned.
NoArgs == <<>>
NoResult == <<>>

NoRecord == [absent |-> TRUE]
NoDecl == [none |-> TRUE]

---------------------------------------------------------------------------
(* The database: catalog views and the effect of GRANT and REVOKE.         *)

\* The textual forms of ADMIN_OPTION the server variants return.
ServerVariants == {"TRUE/FALSE", "true/false", "1/0"}

AdminText(variant, b) ==
    CASE variant = "TRUE/FALSE" -> IF b THEN s_TRUE ELSE s_FALSE
      [] variant = "true/false" -> IF b THEN s_true ELSE s_false
      [] OTHER -> IF b THEN s_1 ELSE s_0

EmptyCatalog == [sys |-> {}, role |-> {}, obj |-> {}, conn |-> {}]

\* The individual privileges a GRANT ALL is expanded into.
ExpandedPrivileges == PrivilegeNames \ {s_ALL}

\* The object a qualified, quoted name designates: the quotes removed.
UnquoteParts(parts) == Join([i \in 1..Len(parts) |-> Trim(parts[i], DQ)], <<".">>)
Unquote(q) == UnquoteParts(SplitOn(q, ".", <<>>))

GrantStmt(shape, what, objType, objName, grantee, admin) ==
    [verb |-> "GRANT", shape |-> shape, what |-> what, objType |-> objType,
     objName |-> objName, grantee |-> grantee, admin |-> admin]

RevokeStmt(shape, what, objType, objName, grantee) ==
    [verb |-> "REVOKE", shape |-> shape, what |-> what, objType |-> objType,
     objName |-> objName, grantee |-> grantee, admin |-> FALSE]

SysRows(c, g, p) == {r \in c.sys : r.GRANTEE = g /\ r.PRIVILEGE = p}
RoleRows(c, role, g) == {r \in c.role : r.GRANTED_ROLE = role /\ r.GRANTEE = g}
ConnRows(c, conn, g) == {r \in c.conn : r.GRANTED_CONNECTION = conn /\ r.GRANTEE = g}
ObjRowsOf(c, g, t, n) ==
    {r \in c.obj : r.GRANTEE = g /\ r.OBJECT_TYPE = t /\ r.OBJECT_NAME = n}
ObjRows(c, g, p, t, n) == {r \in ObjRowsOf(c, g, t, n) : r.PRIVILEGE = p}

ObjRow(g, p, t, n) == [GRANTEE |-> g, PRIVILEGE |-> p, OBJECT_TYPE |-> t, OBJECT_NAME |-> n]

\* The effect of a REVOKE that names the rows old of a view.
Removed(c, view, old) == [ok |-> old # {}, cat |-> [c EXCEPT ![view] = @ \ old]]

\* db.ExecContext of one statement: [ok, cat].  A REVOKE of a grant that
\* does not exist is rejected by the server.
ExecResolved(c, s, allExpands) ==
    LET g == s.grantee
    IN
    CASE s.shape = "sys" /\ s.verb = "GRANT" ->
           LET old == SysRows(c, g, s.what)
               adm == s.admin \/ (\E r \in old : r.ADMIN_OPTION)
           IN [ok |-> TRUE,
               cat |-> [c EXCEPT !.sys = (@ \ old) \cup
                          {[GRANTEE |-> g, PRIVILEGE |-> s.what, ADMIN_OPTION |-> adm]}]]
      [] s.shape = "sys" /\ s.verb = "REVOKE" ->
           Removed(c, "sys", SysRows(c, g, s.what))
      [] s.shape = "role" /\ s.verb = "GRANT" ->
           LET old == RoleRows(c, s.what, g)
               adm == s.admin \/ (\E r \in old : r.ADMIN_OPTION)
           IN [ok |-> TRUE,
               cat |-> [c EXCEPT !.role = (@ \ old) \cup
                          {[GRANTEE |-> g, GRANTED_ROLE |-> s.what, ADMIN_OPTION |-> adm]}]]
      [] s.shape = "role" /\ s.verb = "REVOKE" ->
           Removed(c, "role", RoleRows(c, s.what, g))
      [] s.shape = "conn" /\ s.verb = "GRANT" ->
           [ok |-> TRUE,
            cat |-> [c EXCEPT !.conn = @ \cup {[GRANTEE |-> g, GRANTED_CONNECTION |-> s.what]}]]
      [] s.shape = "conn" /\ s.verb = "REVOKE" ->
           Removed(c, "conn", ConnRows(c, s.what, g))
      [] s.shape = "obj" /\ s.verb = "GRANT" ->
           LET names == IF s.what = s_ALL /\ allExpands THEN ExpandedPrivileges ELSE {s.what}
           IN [ok |-> TRUE,
               cat |-> [c EXCEPT !.obj = @ \cup {ObjRow(g, p, s.objType, Unquote(s.objName)) : p \in names}]]
      [] OTHER ->
           Removed(c, "obj", IF s.what = s_ALL THEN ObjRowsOf(c, g, s.objType, Unquote(s.objName))
                             ELSE ObjRows(c, g, s.what, s.objType, Unquote(s.objName)))

\* GRANT x TO y with x unquoted: x is a system privilege or, if it is
\* none, the name of a role (as in GRANT test_role_1 TO test_role_2).
ExecStmt(c, s, allExpands) ==
    ExecResolved(c, IF s.shape = "sys" /\ s.what \notin SystemPrivileges
                    THEN [s EXCEPT !.shape = "role"] ELSE s, allExpands)

\* A handler's statements in program order.  Each entry names what the
\* handler does when the statement fails: "abort" (AddError and return),
\* "report" (AddError and go on) or "warn" (tflog.Warn and go on).
Step(stmt, onErr) == [stmt |-> stmt, onErr |-> onErr]

RECURSIVE RunFrom(_, _, _, _, _, _)
\* The statement script[i] has run with result r.
RunStep(script, i, r, failAt, allExpands, log) ==
    IF ~r.ok /\ script[i].onErr = "abort"
    THEN [cat |-> r.cat, aborted |-> TRUE,
          log |-> Append(log, [stmt |-> script[i].stmt, ok |-> FALSE, onErr |-> "abort"])]
    ELSE RunFrom(script, i + 1, r.cat, failAt, allExpands,
                 Append(log, [stmt |-> script[i].stmt, ok |-> r.ok, onErr |-> script[i].onErr]))

RunFrom(script, i, c, failAt, allExpands, log) ==
    IF i > Len(script) THEN [cat |-> c, log |-> log, aborted |-> FALSE]
    ELSE RunStep(script, i,
                 IF i = failAt THEN [ok |-> FALSE, cat |-> c]
                 ELSE ExecStmt(c, script[i].stmt, allExpands),
                 failAt, allExpands, log)

\* The statements run one after the other; statement number failAt fails
\* for a reason of the server's (0: none does).
RunScript(script, c, failAt, allExpands) == RunFrom(script, 1, c, failAt, allExpands, <<>>)

\* resp.Diagnostics.HasError() after the statements have run.
HasError(log) == \E i \in DOMAIN log : ~log[i].ok /\ log[i].onErr \in {"abort", "report"}

\* What a handler hands back: the record to store (NoRecord: none), the
\* catalog after its statements, the statements it executed, the error flag.
Response(state, c, log, error) == [state |-> state, cat |-> c, log |-> log, error |-> error]

\* The end of a Create: nothing is stored if the input was rejected or the
\* GRANT failed, the record otherwise.
Created(invalid, c, run, record) ==
    IF invalid THEN Response(NoRecord, c, <<>>, TRUE)
    ELSE IF run.aborted THEN Response(NoRecord, run.cat, run.log, TRUE)
    ELSE Response(record, run.cat, run.log, FALSE)

\* An Update that stores the planned record even when a statement has
\* aborted the handler.
UpdatedStoresOnAbort(invalid, state, c, run, record) ==
    IF invalid THEN Response(state, c, <<>>, TRUE)
    ELSE Response(record, run.cat, run.log, run.aborted)

\* The end of an Update: the prior record stays if the input was rejected
\* or a statement aborted the handler, the new record is stored otherwise.
Updated(invalid, state, c, run, record) ==
    IF invalid THEN Response(state, c, <<>>, TRUE)
    ELSE IF run.aborted THEN Response(state, run.cat, run.log, TRUE)
    ELSE Response(record, run.cat, run.log, FALSE)

\* The end of a Delete: with an error in the diagnostics the record stays.
Deleted(invalid, state, c, run) ==
    IF invalid THEN Response(state, c, <<>>, TRUE)
    ELSE Response(IF HasError(run.log) THEN state ELSE NoRecord, run.cat, run.log,
                  HasError(run.log))

---------------------------------------------------------------------------
(* exasol_system_privilege                                                 *)

SystemPrivilegeDecls == [grantee : Grantees, privilege : SystemPrivileges, admin : TriState]

\* systemPrivilegeID
systemPrivilegeID(m) ==
    LET adminOption == IF ~IsNull(m.admin) /\ ValueBool(m.admin) THEN s_true ELSE s_false
    IN Join(<<ToUpper(m.grantee), ToUpper(m.privilege), adminOption>>, <<"|">>)

SystemPrivilegeRecord(m, admin) ==
    [grantee |-> m.grantee, privilege |-> m.privilege, admin |-> admin,
     id |-> systemPrivilegeID([m EXCEPT !.admin = admin])]

\* A GRANT that carries the admin option unless the plan sets it to false.
SysGrantAdminUnlessFalse(privilege, grantee, planAdmin) ==
    GrantStmt("sys", privilege, <<>>, <<>>, grantee, planAdmin # "false")

SysGrant(privilege, grantee, planAdmin) ==
    GrantStmt("sys", privilege, <<>>, <<>>, grantee, ~IsNull(planAdmin) /\ ValueBool(planAdmin))
SysRevoke(privilege, grantee) == RevokeStmt("sys", privilege, <<>>, <<>>, grantee)

\* A Create that names the grantee in the statement as it is written.
SystemPrivilegeCreateAsWritten(plan, c, failAt, allExpands) ==
    Created(~isValidIdentifier(ToUpper(plan.grantee)), c,
            RunScript(<<Step(SysGrant(ToUpper(plan.privilege), plan.grantee, plan.admin),
                             "abort")>>, c, failAt, allExpands),
            SystemPrivilegeRecord(plan, plan.admin))

\* SystemPrivilegeResource.Create
SystemPrivilegeCreate(plan, c, failAt, allExpands) ==
    Created(~isValidIdentifier(ToUpper(plan.grantee)), c,
            RunScript(<<Step(SysGrant(ToUpper(plan.privilege), ToUpper(plan.grantee), plan.admin),
                             "abort")>>, c, failAt, allExpands),
            SystemPrivilegeRecord(plan, plan.admin))

\* A Read that adopts the catalog's admin option whatever is stored.
SystemPrivilegeReadAdminAlways(stored, adminOption) ==
    IF adminOption = s_TRUE THEN "true" ELSE "false"

\* SystemPrivilegeResource.Read: the admin option is adopted from the
\* catalog only when the stored value is not null.
SystemPrivilegeReadAdmin(stored, adminOption) ==
    IF ~IsNull(stored) THEN (IF adminOption = s_TRUE THEN "true" ELSE "false") ELSE stored

SystemPrivilegeFound(state, c, rows, variant) ==
    IF rows = {} THEN Response(NoRecord, c, <<>>, FALSE)
    ELSE Response(SystemPrivilegeRecord(state,
                    SystemPrivilegeReadAdmin(state.admin,
                                             AdminText(variant, \E r \in rows : r.ADMIN_OPTION))),
                  c, <<>>, FALSE)

SystemPrivilegeRead(state, c, queryError, variant) ==
    IF queryError THEN Response(state, c, <<>>, TRUE)
    ELSE SystemPrivilegeFound(state, c,
                              SysRows(c, ToUpper(state.grantee), ToUpper(state.privilege)), variant)

\* An Update whose REVOKE names the planned grant instead of the stored one.
SystemPrivilegeUpdateRevokesPlanned(plan, state, c, failAt, allExpands) ==
    Updated(FALSE, state, c,
            RunScript(
              IF plan.grantee # state.grantee \/ plan.privilege # state.privilege
                 \/ ValueBool(plan.admin) # ValueBool(state.admin)
              THEN <<Step(SysRevoke(ToUpper(plan.privilege), ToUpper(plan.grantee)), "abort"),
                     Step(SysGrant(ToUpper(plan.privilege), ToUpper(plan.grantee), plan.admin),
                          "abort")>>
              ELSE <<>>, c, failAt, allExpands),
            SystemPrivilegeRecord(plan, plan.admin))

\* SystemPrivilegeResource.Update
SystemPrivilegeUpdate(plan, state, c, failAt, allExpands) ==
    Updated(FALSE, state, c,
            RunScript(
              IF plan.grantee # state.grantee \/ plan.privilege # state.privilege
              THEN <<Step(SysRevoke(ToUpper(state.privilege), ToUpper(state.grantee)), "abort"),
                     Step(SysGrant(ToUpper(plan.privilege), ToUpper(plan.grantee), plan.admin),
                          "abort")>>
              ELSE IF ValueBool(plan.admin) # ValueBool(state.admin)
              THEN <<Step(SysRevoke(ToUpper(plan.privilege), ToUpper(plan.grantee)), "abort"),
                     Step(SysGrant(ToUpper(plan.privilege), ToUpper(plan.grantee), plan.admin),
                          "abort")>>
              ELSE <<>>, c, failAt, allExpands),
            SystemPrivilegeRecord(plan, plan.admin))

\* SystemPrivilegeResource.Delete
SystemPrivilegeDelete(state, c, failAt, allExpands) ==
    Deleted(FALSE, state, c,
            RunScript(<<Step(SysRevoke(ToUpper(state.privilege), ToUpper(state.grantee)),
                             "report")>>, c, failAt, allExpands))

---------------------------------------------------------------------------
(* exasol_role_grant                                                       *)

RoleGrantDecls == [role : Roles, grantee : Grantees, admin : TriState]

\* An identifier that tells an unset admin option from false.
roleGrantIDTriState(m) ==
    Join(<<ToUpper(m.role), ToUpper(m.grantee),
           IF IsNull(m.admin) THEN <<"n","u","l","l">>
           ELSE IF ValueBool(m.admin) THEN s_true ELSE s_false>>, <<"|">>)

\* roleGrantID
roleGrantID(m) ==
    LET adminOption == IF ~IsNull(m.admin) /\ ValueBool(m.admin) THEN s_true ELSE s_false
    IN Join(<<ToUpper(m.role), ToUpper(m.grantee), adminOption>>, <<"|">>)

RoleGrantRecord(m, admin) ==
    [role |-> m.role, grantee |-> m.grantee, admin |-> admin,
     id |-> roleGrantID([m EXCEPT !.admin = admin])]

RoleGrantStmt(role, grantee, planAdmin) ==
    GrantStmt("role", role, <<>>, <<>>, grantee, ~IsNull(planAdmin) /\ ValueBool(planAdmin))
RoleRevokeStmt(role, grantee) == RevokeStmt("role", role, <<>>, <<>>, grantee)

\* RoleGrantResource.Create
RoleGrantCreate(plan, c, failAt, allExpands) ==
    Created(~isValidIdentifier(ToUpper(plan.role)) \/ ~isValidIdentifier(ToUpper(plan.grantee)), c,
            RunScript(<<Step(RoleGrantStmt(ToUpper(plan.role), ToUpper(plan.grantee), plan.admin),
                             "abort")>>, c, failAt, allExpands),
            RoleGrantRecord(plan, plan.admin))

\* RoleGrantResource.Read: the admin option is always taken from the catalog.
RoleGrantReadAdmin(stored, adminOption) ==
    IF adminOption = s_TRUE \/ adminOption = s_1 \/ adminOption = s_true THEN "true" ELSE "false"

RoleGrantFound(state, c, rows, variant) ==
    IF rows = {} THEN Response(NoRecord, c, <<>>, FALSE)
    ELSE Response(RoleGrantRecord(state,
                    RoleGrantReadAdmin(state.admin,
                                       AdminText(variant, \E r \in rows : r.ADMIN_OPTION))),
                  c, <<>>, FALSE)

RoleGrantRead(state, c, queryError, variant) ==
    IF queryError THEN Response(state, c, <<>>, TRUE)
    ELSE RoleGrantFound(state, c, RoleRows(c, ToUpper(state.role), ToUpper(state.grantee)),
                        variant)

\* An Update that reacts to a change of the names only.
RoleGrantUpdateNamesOnly(plan, state, c, failAt, allExpands) ==
    Updated(FALSE, state, c,
            RunScript(
              IF plan.role # state.role \/ plan.grantee # state.grantee
              THEN <<Step(RoleRevokeStmt(ToUpper(state.role), ToUpper(state.grantee)), "abort"),
                     Step(RoleGrantStmt(ToUpper(plan.role), ToUpper(plan.grantee), plan.admin),
                          "abort")>>
              ELSE <<>>, c, failAt, allExpands),
            RoleGrantRecord(plan, plan.admin))

\* RoleGrantResource.Update
RoleGrantUpdate(plan, state, c, failAt, allExpands) ==
    Updated(FALSE, state, c,
            RunScript(
              IF plan.role # state.role \/ plan.grantee # state.grantee
              THEN <<Step(RoleRevokeStmt(ToUpper(state.role), ToUpper(state.grantee)), "abort"),
                     Step(RoleGrantStmt(ToUpper(plan.role), ToUpper(plan.grantee), plan.admin),
                          "abort")>>
              ELSE IF ValueBool(plan.admin) # ValueBool(state.admin)
              THEN <<Step(RoleRevokeStmt(ToUpper(plan.role), ToUpper(plan.grantee)), "abort"),
                     Step(RoleGrantStmt(ToUpper(plan.role), ToUpper(plan.grantee), plan.admin),
                          "abort")>>
              ELSE <<>>, c, failAt, allExpands),
            RoleGrantRecord(plan, plan.admin))

\* RoleGrantResource.Delete
RoleGrantDelete(state, c, failAt, allExpands) ==
    Deleted(FALSE, state, c,
            RunScript(<<Step(RoleRevokeStmt(ToUpper(state.role), ToUpper(state.grantee)),
                             "report")>>, c, failAt, allExpands))

---------------------------------------------------------------------------
(* exasol_object_privilege                                                 *)

\* All privilege lists of at most MaxPrivs entries.
PrivilegeLists == UNION {[1..n -> PrivilegeNames] : n \in 0..MaxPrivs}

ObjectPrivilegeDecls ==
    [grantee : Grantees, privileges : PrivilegeLists,
     objectType : ObjectTypes, objectName : ObjectNames]

\* An identifier that keeps the privileges in the order of the list.
objectPrivilegeIDUnsorted(m) ==
    Join(<<ToUpper(m.grantee), Join(MapUpper(m.privileges), <<",">>), ToUpper(m.objectType),
           ToUpper(m.objectName)>>, <<"|">>)

\* objectPrivilegeID
objectPrivilegeID(m) ==
    LET privilegesStr == Join(SortStrings(MapUpper(m.privileges)), <<",">>)
    IN Join(<<ToUpper(m.grantee), privilegesStr, ToUpper(m.objectType), ToUpper(m.objectName)>>,
            <<"|">>)

ObjectPrivilegeRecord(m, privileges) ==
    [grantee |-> m.grantee, privileges |-> privileges, objectType |-> m.objectType,
     objectName |-> m.objectName,
     id |-> objectPrivilegeID([grantee |-> m.grantee, privileges |-> privileges,
                               objectType |-> m.objectType, objectName |-> m.objectName])]

ObjGrant(priv, objectType, objectName, grantee) ==
    GrantStmt("obj", priv, objectType, objectName, grantee, FALSE)
ObjRevoke(priv, objectType, objectName, grantee) ==
    RevokeStmt("obj", priv, objectType, objectName, grantee)

\* checkObjectPrivilegeExists: for ALL, the literal row first, then the
\* count of any privilege rows of the tuple.
checkObjectPrivilegeExists(c, grantee, privilege, objectType, objectName) ==
    IF privilege = s_ALL
    THEN IF ObjRows(c, grantee, s_ALL, objectType, objectName) # {} THEN TRUE
         ELSE Cardinality(ObjRowsOf(c, grantee, objectType, objectName)) > 0
    ELSE ObjRows(c, grantee, privilege, objectType, objectName) # {}

\* ObjectPrivilegeResource.Create
\* One statement per privilege of the list, in list order.
GrantEach(privileges, objectType, objectName, grantee, onErr) ==
    [i \in 1..Len(privileges) |->
       Step(ObjGrant(privileges[i], objectType, objectName, grantee), onErr)]

\* REVOKEs whose failure ends the handler with an error, whatever the
\* caller asks for.
RevokeEachAborting(privileges, objectType, objectName, grantee, onErr) ==
    [i \in 1..Len(privileges) |->
       Step(ObjRevoke(privileges[i], objectType, objectName, grantee), "abort")]

RevokeEach(privileges, objectType, objectName, grantee, onErr) ==
    [i \in 1..Len(privileges) |->
       Step(ObjRevoke(privileges[i], objectType, objectName, grantee), onErr)]

\* A Create that adds the error of a failing GRANT to the diagnostics and
\* goes on with the next privilege.
ObjectPrivilegeCreateContinues(plan, c, failAt, allExpands) ==
    Created(~isValidIdentifier(ToUpper(plan.grantee)), c,
            RunScript(GrantEach(MapUpper(plan.privileges), ToUpper(plan.objectType),
                                qualify(plan.objectName), ToUpper(plan.grantee), "report"),
                      c, failAt, allExpands),
            ObjectPrivilegeRecord(plan, plan.privileges))

ObjectPrivilegeCreate(plan, c, failAt, allExpands) ==
    Created(~isValidIdentifier(ToUpper(plan.grantee)), c,
            RunScript(GrantEach(MapUpper(plan.privileges), ToUpper(plan.objectType),
                                qualify(plan.objectName), ToUpper(plan.grantee), "abort"),
                      c, failAt, allExpands),
            ObjectPrivilegeRecord(plan, plan.privileges))

\* The loop of ObjectPrivilegeResource.Read: the uppercased privileges of
\* the list, in order, that the catalog reports.
RECURSIVE foundPrivileges(_, _, _, _, _)
foundPrivileges(privileges, c, grantee, objectType, objectName) ==
    IF privileges = <<>> THEN <<>>
    ELSE (IF checkObjectPrivilegeExists(c, grantee, ToUpper(Head(privileges)), objectType,
                                        objectName)
          THEN <<ToUpper(Head(privileges))>> ELSE <<>>)
         \o foundPrivileges(Tail(privileges), c, grantee, objectType, objectName)

\* ObjectPrivilegeResource.Read; queryErrorAt is the lookup that fails
\* with an error other than not-found (0: none).
\* A Read that keeps the whole stored list as soon as one privilege exists.
ObjectPrivilegeFoundKeepsList(state, c, found) ==
    IF Len(found) = 0 THEN Response(NoRecord, c, <<>>, FALSE)
    ELSE Response(ObjectPrivilegeRecord(state, state.privileges), c, <<>>, FALSE)

\* A Read that grants the stored privileges again when the catalog lacks
\* one of them.
ObjectPrivilegeFoundRegrants(state, c, found) ==
    IF Len(found) = Len(state.privileges)
    THEN (IF Len(found) = 0 THEN Response(NoRecord, c, <<>>, FALSE)
          ELSE Response(ObjectPrivilegeRecord(state, found), c, <<>>, FALSE))
    ELSE Response(ObjectPrivilegeRecord(state, state.privileges),
                  RunScript(GrantEach(MapUpper(state.privileges), ToUpper(state.objectType),
                                      qualify(state.objectName), ToUpper(state.grantee),
                                      "abort"), c, 0, FALSE).cat,
                  RunScript(GrantEach(MapUpper(state.privileges), ToUpper(state.objectType),
                                      qualify(state.objectName), ToUpper(state.grantee),
                                      "abort"), c, 0, FALSE).log,
                  FALSE)

ObjectPrivilegeFound(state, c, found) ==
    IF Len(found) = 0 THEN Response(NoRecord, c, <<>>, FALSE)
    ELSE Response(ObjectPrivilegeRecord(state, found), c, <<>>, FALSE)

\* A Read that, on a failed lookup, stores what the earlier lookups found.
ObjectPrivilegeReadKeepsEarlier(state, c, queryErrorAt) ==
    IF queryErrorAt \in 1..Len(state.privileges)
    THEN Response(ObjectPrivilegeRecord(state,
                    foundPrivileges(SubSeq(state.privileges, 1, queryErrorAt - 1), c,
                                    ToUpper(state.grantee), ToUpper(state.objectType),
                                    ToUpper(state.objectName))),
                  c, <<>>, TRUE)
    ELSE ObjectPrivilegeFound(state, c,
           foundPrivileges(state.privileges, c, ToUpper(state.grantee),
                           ToUpper(state.objectType), ToUpper(state.objectName)))

ObjectPrivilegeRead(state, c, queryErrorAt) ==
    IF queryErrorAt \in 1..Len(state.privileges) THEN Response(state, c, <<>>, TRUE)
    ELSE ObjectPrivilegeFound(state, c,
           foundPrivileges(state.privileges, c, ToUpper(state.grantee),
                           ToUpper(state.objectType), ToUpper(state.objectName)))

\* The orders in which a Go map of the given keys can be iterated.
Orderings(S) ==
    {f \in [1..Cardinality(S) -> S] : \A i, j \in 1..Cardinality(S) : f[i] = f[j] => i = j}

\* The privileges the diff branch of Update revokes and grants.
RevokedPrivileges(oldPrivileges, newPrivileges) ==
    SeqToSet(MapUpper(oldPrivileges)) \ SeqToSet(MapUpper(newPrivileges))

\* A diff that grants every planned privilege again.
GrantedPrivilegesAll(oldPrivileges, newPrivileges) == SeqToSet(MapUpper(newPrivileges))

\* The difference taken the wrong way round: the privileges of the record
\* that the plan no longer names.
GrantedPrivilegesSwapped(oldPrivileges, newPrivileges) ==
    SeqToSet(MapUpper(oldPrivileges)) \ SeqToSet(MapUpper(newPrivileges))

GrantedPrivileges(oldPrivileges, newPrivileges) ==
    SeqToSet(MapUpper(newPrivileges)) \ SeqToSet(MapUpper(oldPrivileges))

\* The iteration orders Update can take for its two maps.
ObjectPrivilegeOrders(plan, state) ==
    [rev : Orderings(RevokedPrivileges(state.privileges, plan.privileges)),
     gr : Orderings(GrantedPrivileges(state.privileges, plan.privileges))]

\* Whether Update takes the branch that revokes all old and grants all new.
ObjectPrivilegeTargetChanged(plan, state) ==
    \/ ToUpper(state.grantee) # ToUpper(plan.grantee)
    \/ ToUpper(state.objectType) # ToUpper(plan.objectType)
    \/ qualify(state.objectName) # qualify(plan.objectName)

\* ObjectPrivilegeResource.Update
ObjectPrivilegeUpdate(plan, state, c, failAt, allExpands, order) ==
    Updated(FALSE, state, c,
            RunScript(
              IF ObjectPrivilegeTargetChanged(plan, state)
              THEN RevokeEach(MapUpper(state.privileges), ToUpper(state.objectType),
                              qualify(state.objectName), ToUpper(state.grantee), "warn")
                   \o GrantEach(MapUpper(plan.privileges), ToUpper(plan.objectType),
                                qualify(plan.objectName), ToUpper(plan.grantee), "abort")
              ELSE RevokeEach(order.rev, ToUpper(plan.objectType), qualify(plan.objectName),
                              ToUpper(plan.grantee), "warn")
                   \o GrantEach(order.gr, ToUpper(plan.objectType), qualify(plan.objectName),
                                ToUpper(plan.grantee), "abort"),
              c, failAt, allExpands),
            ObjectPrivilegeRecord(plan, plan.privileges))

\* A Delete that returns at the first failing REVOKE.
ObjectPrivilegeDeleteStopsAtError(state, c, failAt, allExpands) ==
    Deleted(FALSE, state, c,
            RunScript(RevokeEach(MapUpper(state.privileges), ToUpper(state.objectType),
                                 qualify(state.objectName), ToUpper(state.grantee), "abort"),
                      c, failAt, allExpands))

\* ObjectPrivilegeResource.Delete
ObjectPrivilegeDelete(state, c, failAt, allExpands) ==
    Deleted(FALSE, state, c,
            RunScript(RevokeEach(MapUpper(state.privileges), ToUpper(state.objectType),
                                 qualify(state.objectName), ToUpper(state.grantee), "report"),
                      c, failAt, allExpands))

---------------------------------------------------------------------------
(* exasol_connection_grant                                                 *)

ConnectionGrantDecls == [connectionName : Connections, grantee : Grantees]

connectionGrantID(connection, grantee) == Join(<<connection, grantee>>, <<"|">>)

ConnGrant(connection, grantee) == GrantStmt("conn", connection, <<>>, <<>>, grantee, FALSE)
ConnRevoke(connection, grantee) == RevokeStmt("conn", connection, <<>>, <<>>, grantee)

\* ConnectionGrantResource.Create
ConnectionGrantRecord(m, connection, grantee) ==
    [connectionName |-> m.connectionName, grantee |-> m.grantee,
     id |-> connectionGrantID(connection, grantee)]

ConnectionGrantCreate(plan, c, failAt, allExpands) ==
    Created(~isValidIdentifier(ToUpper(plan.connectionName))
              \/ ~isValidIdentifier(ToUpper(plan.grantee)), c,
            RunScript(<<Step(ConnGrant(ToUpper(plan.connectionName), ToUpper(plan.grantee)),
                             "abort")>>, c, failAt, allExpands),
            ConnectionGrantRecord(plan, ToUpper(plan.connectionName), ToUpper(plan.grantee)))

\* The lookup of releases before 0.1.4: the object-privilege view, rows of
\* object type CONNECTION.
ConnectionGrantFoundInObjects(c, connection, grantee) ==
    IF {r \in c.obj : r.OBJECT_TYPE = <<"C","O","N","N","E","C","T","I","O","N">>
                      /\ r.OBJECT_NAME = connection /\ r.GRANTEE = grantee} = {}
    THEN Response(NoRecord, c, <<>>, FALSE)
    ELSE Response([connectionName |-> connection, grantee |-> grantee,
                   id |-> connectionGrantID(connection, grantee)], c, <<>>, FALSE)

\* ConnectionGrantResource.Read: the stored names are replaced by the
\* uppercased ones.
ConnectionGrantFound(c, connection, grantee) ==
    IF ConnRows(c, connection, grantee) = {} THEN Response(NoRecord, c, <<>>, FALSE)
    ELSE Response([connectionName |-> connection, grantee |-> grantee,
                   id |-> connectionGrantID(connection, grantee)], c, <<>>, FALSE)

ConnectionGrantRead(state, c, queryError) ==
    IF queryError THEN Response(state, c, <<>>, TRUE)
    ELSE ConnectionGrantFound(c, ToUpper(state.connectionName), ToUpper(state.grantee))

\* ConnectionGrantResource.Update
ConnectionGrantUpdate(plan, state, c, failAt, allExpands) ==
    Updated(~isValidIdentifier(ToUpper(plan.connectionName))
              \/ ~isValidIdentifier(ToUpper(plan.grantee)), state, c,
            RunScript(
              IF ToUpper(state.connectionName) # ToUpper(plan.connectionName)
                 \/ ToUpper(state.grantee) # ToUpper(plan.grantee)
              THEN <<Step(ConnRevoke(ToUpper(state.connectionName), ToUpper(state.grantee)),
                          "abort"),
                     Step(ConnGrant(ToUpper(plan.connectionName), ToUpper(plan.grantee)),
                          "abort")>>
              ELSE <<>>, c, failAt, allExpands),
            ConnectionGrantRecord(plan, ToUpper(plan.connectionName), ToUpper(plan.grantee)))

\* ConnectionGrantResource.Delete
ConnectionGrantDelete(state, c, failAt, allExpands) ==
    Deleted(~isValidIdentifier(ToUpper(state.connectionName))
              \/ ~isValidIdentifier(ToUpper(state.grantee)), state, c,
            RunScript(<<Step(ConnRevoke(ToUpper(state.connectionName), ToUpper(state.grantee)),
                             "report")>>, c, failAt, allExpands))

---------------------------------------------------------------------------
(* exasol_grant, the legacy generic grant.  The repository holds two       *)
(* copies of grant_resource.go; build names the one compiled in.           *)

Builds == {"internal/resources/grant_resource.go", "unnamed/part_011"}

\* A types.String that is null; ValueString of it is the empty string.
NullString == <<"<null>">>
IsNullString(x) == x = NullString
ValueString(x) == IF x = NullString THEN <<>> ELSE x

GrantDecls ==
    [granteeName : Grantees, privilegeType : {s_SYSTEM}, privilege : SystemPrivileges,
     objectType : {NullString}, objectName : {NullString}, admin : TriState]
    \cup
    [granteeName : Grantees, privilegeType : {s_SYSTEM}, privilege : Roles,
     objectType : {s_ROLE}, objectName : {NullString}, admin : {"null", "true"}]
    \cup
    [granteeName : Grantees, privilegeType : {s_OBJECT}, privilege : PrivilegeNames,
     objectType : ObjectTypes, objectName : ObjectNames, admin : {"null"}]

\* An identifier that leaves the object name out.
idForGrantWithoutName(m) ==
    Join(<<ToUpper(m.granteeName), ToUpper(m.privilegeType), ToUpper(m.privilege),
           ToUpper(ValueString(m.objectType)), IF ValueBool(m.admin) THEN s_true ELSE s_false>>,
         <<"|">>)

\* idForGrant
idForGrant(m) ==
    LET withAdmin == IF ValueBool(m.admin) THEN s_true ELSE s_false
    IN Join(<<ToUpper(m.granteeName), ToUpper(m.privilegeType), ToUpper(m.privilege),
              ToUpper(ValueString(m.objectType)), ValueString(m.objectName), withAdmin>>,
            <<"|">>)

GrantRecord(m) ==
    [granteeName |-> m.granteeName, privilegeType |-> m.privilegeType,
     privilege |-> m.privilege, objectType |-> m.objectType, objectName |-> m.objectName,
     admin |-> m.admin, id |-> idForGrant(m)]

\* buildGrantSQL and buildRevokeSQL: [err, stmt].  Only the newer copy
\* validates the grantee.
buildSQL(b, m, verb) ==
    LET granteeName == ToUpper(m.granteeName)
        priv == ToUpper(m.privilege)
        pt == ToUpper(m.privilegeType)
        none == RevokeStmt("sys", <<>>, <<>>, <<>>, <<>>)
    IN IF b = "unnamed/part_011" /\ ~isValidIdentifier(granteeName)
       THEN [err |-> TRUE, stmt |-> none]
       ELSE IF pt = s_SYSTEM
       THEN [err |-> FALSE,
             stmt |-> IF verb = "GRANT"
                      THEN GrantStmt("sys", priv, <<>>, <<>>, granteeName, ValueBool(m.admin))
                      ELSE RevokeStmt("sys", priv, <<>>, <<>>, granteeName)]
       ELSE IF pt = s_OBJECT
       THEN IF IsNullString(m.objectType) \/ IsNullString(m.objectName)
            THEN [err |-> TRUE, stmt |-> none]
            ELSE LET objType == ToUpper(ValueString(m.objectType))
                     objName == qualify(ValueString(m.objectName))
                 IN [err |-> FALSE,
                     stmt |-> IF verb = "GRANT"
                              THEN GrantStmt("obj", priv, objType, objName, granteeName, FALSE)
                              ELSE RevokeStmt("obj", priv, objType, objName, granteeName)]
       ELSE [err |-> TRUE, stmt |-> none]

buildGrantSQL(b, m) == buildSQL(b, m, "GRANT")
buildRevokeSQL(b, m) == buildSQL(b, m, "REVOKE")

\* checkGrantExists: [err, exists].  The copy under internal/resources is
\* a stub that reports every grant as existing.
checkGrantExists(b, c, m) ==
    LET granteeName == ToUpper(m.granteeName)
        privilege == ToUpper(m.privilege)
        pt == ToUpper(m.privilegeType)
    IN IF b = "internal/resources/grant_resource.go" THEN [err |-> FALSE, exists |-> TRUE]
       ELSE IF pt = s_SYSTEM
       THEN IF ~IsNullString(m.objectType) /\ EqualFold(ValueString(m.objectType), s_ROLE)
            THEN [err |-> FALSE, exists |-> RoleRows(c, privilege, granteeName) # {}]
            ELSE [err |-> FALSE, exists |-> SysRows(c, granteeName, privilege) # {}]
       ELSE IF pt = s_OBJECT
       THEN IF IsNullString(m.objectType) \/ IsNullString(m.objectName)
            THEN [err |-> TRUE, exists |-> FALSE]
            ELSE LET objType == ToUpper(ValueString(m.objectType))
                     objName == ToUpper(ValueString(m.objectName))
                 IN IF EqualFold(objType, s_ROLE)
                    THEN [err |-> FALSE, exists |-> RoleRows(c, objName, granteeName) # {}]
                    ELSE IF privilege = s_ALL
                    THEN [err |-> FALSE,
                          exists |->
                            IF ObjRows(c, granteeName, s_ALL, objType, objName) # {} THEN TRUE
                            ELSE Cardinality(ObjRowsOf(c, granteeName, objType, objName)) > 0]
                    ELSE [err |-> FALSE,
                          exists |-> ObjRows(c, granteeName, privilege, objType, objName) # {}]
       ELSE [err |-> TRUE, exists |-> FALSE]

\* isSchemaObjectRename
isSchemaObjectRename(plan, state) ==
    IF \/ ~EqualFold(plan.privilegeType, s_OBJECT)
       \/ ~EqualFold(state.privilegeType, s_OBJECT)
       \/ ~EqualFold(ValueString(plan.objectType), s_SCHEMA)
       \/ ~EqualFold(ValueString(state.objectType), s_SCHEMA)
    THEN FALSE
    ELSE /\ plan.granteeName = state.granteeName
         /\ plan.privilege = state.privilege
         /\ ValueBool(plan.admin) = ValueBool(state.admin)
         /\ ValueString(plan.objectName) # ValueString(state.objectName)

\* GrantResource.Create
GrantCreateWith(plan, c, failAt, allExpands, sqlGrant) ==
    Created(sqlGrant.err, c,
            RunScript(<<Step(sqlGrant.stmt, "abort")>>, c, failAt, allExpands),
            GrantRecord(plan))

GrantCreate(b, plan, c, failAt, allExpands) ==
    GrantCreateWith(plan, c, failAt, allExpands, buildGrantSQL(b, plan))

\* GrantResource.Read
GrantFound(b, state, c, queryError, found) ==
    IF (queryError /\ b = "unnamed/part_011") \/ found.err THEN Response(state, c, <<>>, TRUE)
    ELSE IF ~found.exists THEN Response(NoRecord, c, <<>>, FALSE)
    ELSE Response(GrantRecord(state), c, <<>>, FALSE)

GrantRead(b, state, c, queryError) ==
    GrantFound(b, state, c, queryError, checkGrantExists(b, c, state))

\* GrantResource.Update
\* The REVOKE of the old grant has been built and run, the GRANT of the new
\* one built: the GRANT runs unless building it failed.
GrantReplaced(plan, state, sqlGrant, run) ==
    IF run.aborted \/ sqlGrant.err THEN Response(state, run.cat, run.log, TRUE)
    ELSE Response(GrantRecord(plan), run.cat, run.log, FALSE)

GrantUpdateWith(plan, state, c, failAt, allExpands, sqlRevoke, sqlGrant) ==
    IF sqlRevoke.err THEN Response(state, c, <<>>, TRUE)
    ELSE GrantReplaced(plan, state, sqlGrant,
                       RunScript(IF sqlGrant.err THEN <<Step(sqlRevoke.stmt, "abort")>>
                                 ELSE <<Step(sqlRevoke.stmt, "abort"),
                                        Step(sqlGrant.stmt, "abort")>>,
                                 c, failAt, allExpands))

GrantUpdate(b, plan, state, c, failAt, allExpands) ==
    IF isSchemaObjectRename(plan, state) THEN Response(GrantRecord(plan), c, <<>>, FALSE)
    ELSE IF idForGrant(state) = idForGrant(plan) THEN Response(GrantRecord(plan), c, <<>>, FALSE)
    ELSE GrantUpdateWith(plan, state, c, failAt, allExpands,
                         buildRevokeSQL(b, state), buildGrantSQL(b, plan))

\* GrantResource.Delete
GrantDeleteWith(state, c, failAt, allExpands, sqlRevoke) ==
    Deleted(sqlRevoke.err, state, c,
            RunScript(<<Step(sqlRevoke.stmt, "report")>>, c, failAt, allExpands))

GrantDelete(b, state, c, failAt, allExpands) ==
    GrantDeleteWith(state, c, failAt, allExpands, buildRevokeSQL(b, state))

---------------------------------------------------------------------------
(* The reconciliation of one managed resource: the declarative layer calls *)
(* Create when no record is stored, Read to refresh the record, Update     *)
(* when the declaration differs from the record, Delete to destroy it.     *)

Kinds == {"system_privilege", "role_grant", "object_privilege", "connection_grant", "grant"}

Decls(k) ==
    CASE k = "system_privilege" -> SystemPrivilegeDecls
      [] k = "role_grant" -> RoleGrantDecls
      [] k = "object_privilege" -> ObjectPrivilegeDecls
      [] k = "connection_grant" -> ConnectionGrantDecls
      [] OTHER -> GrantDecls

\* The configurable attributes of a stored record (id is computed).
DeclOf(s) == [f \in DOMAIN s \ {"id"} |-> s[f]]

CreateOp(k, b, plan, c, failAt, sv) ==
    CASE k = "system_privilege" -> SystemPrivilegeCreate(plan, c, failAt, sv.allExpands)
      [] k = "role_grant" -> RoleGrantCreate(plan, c, failAt, sv.allExpands)
      [] k = "object_privilege" -> ObjectPrivilegeCreate(plan, c, failAt, sv.allExpands)
      [] k = "connection_grant" -> ConnectionGrantCreate(plan, c, failAt, sv.allExpands)
      [] OTHER -> GrantCreate(b, plan, c, failAt, sv.allExpands)

ReadOp(k, b, state, c, queryErrorAt, sv) ==
    CASE k = "system_privilege" -> SystemPrivilegeRead(state, c, queryErrorAt > 0, sv.variant)
      [] k = "role_grant" -> RoleGrantRead(state, c, queryErrorAt > 0, sv.variant)
      [] k = "object_privilege" -> ObjectPrivilegeRead(state, c, queryErrorAt)
      [] k = "connection_grant" -> ConnectionGrantRead(state, c, queryErrorAt > 0)
      [] OTHER -> GrantRead(b, state, c, queryErrorAt > 0)

UpdateOp(k, b, plan, state, c, failAt, sv, order) ==
    CASE k = "system_privilege" -> SystemPrivilegeUpdate(plan, state, c, failAt, sv.allExpands)
      [] k = "role_grant" -> RoleGrantUpdate(plan, state, c, failAt, sv.allExpands)
      [] k = "object_privilege" ->
           ObjectPrivilegeUpdate(plan, state, c, failAt, sv.allExpands, order)
      [] k = "connection_grant" -> ConnectionGrantUpdate(plan, state, c, failAt, sv.allExpands)
      [] OTHER -> GrantUpdate(b, plan, state, c, failAt, sv.allExpands)

DeleteOp(k, b, state, c, failAt, sv) ==
    CASE k = "system_privilege" -> SystemPrivilegeDelete(state, c, failAt, sv.allExpands)
      [] k = "role_grant" -> RoleGrantDelete(state, c, failAt, sv.allExpands)
      [] k = "object_privilege" -> ObjectPrivilegeDelete(state, c, failAt, sv.allExpands)
      [] k = "connection_grant" -> ConnectionGrantDelete(state, c, failAt, sv.allExpands)
      [] OTHER -> GrantDelete(b, state, c, failAt, sv.allExpands)

\* The lookups a Read makes: one per stored privilege, one for the others.
\* The catalog queries of a Read that can fail: one per stored privilege
\* of an object privilege, none in the GrantResource whose existence check
\* queries nothing, one otherwise.
Lookups(k, b, state) ==
    IF k = "object_privilege" THEN Len(state.privileges)
    ELSE IF k = "grant" /\ b = "internal/resources/grant_resource.go" THEN 0
    ELSE 1

UpdateOrders(k, plan, state) ==
    IF k = "object_privilege" THEN ObjectPrivilegeOrders(plan, state)
    ELSE {[rev |-> <<>>, gr |-> <<>>]}

\* The edits of a privileges list a changed declaration can carry.
ListEdits(l) ==
    {Append(l, n) : n \in IF Len(l) < MaxPrivs THEN PrivilegeNames ELSE {}}
    \cup {SubSeq(l, 1, i - 1) \o SubSeq(l, i + 1, Len(l)) : i \in 1..Len(l)}
    \cup {[l EXCEPT ![i] = n] : i \in 1..Len(l), n \in PrivilegeNames}
    \cup {[i \in 1..Len(l) |-> l[Len(l) + 1 - i]]}

\* The declarations that differ from d in one attribute.
Edits(k, d) ==
    IF k = "object_privilege"
    THEN ({[d EXCEPT !.grantee = g] : g \in Grantees}
          \cup {[d EXCEPT !.objectType = t] : t \in ObjectTypes}
          \cup {[d EXCEPT !.objectName = n] : n \in ObjectNames}
          \cup {[d EXCEPT !.privileges = l] : l \in ListEdits(d.privileges)}) \ {d}
    ELSE {p \in Decls(k) : Cardinality({f \in DOMAIN d : p[f] # d[f]}) = 1}

Call(op, plan, before, c, r, failAt) ==
    [op |-> op, plan |-> plan, before |-> before, cat |-> c, after |-> r.state,
     log |-> r.log, error |-> r.error, fault |-> failAt # 0]

NoCall == [op |-> "none", plan |-> NoDecl, before |-> NoRecord, cat |-> EmptyCatalog,
           after |-> NoRecord, log |-> <<>>, error |-> FALSE, fault |-> FALSE]

\* The steps of an operation that may fail for a reason outside the
\* provider (a lost session, a lock, a missing right): none once the events
\* the model allows are used up.
FailPoints(n) == IF changesLeft > 0 THEN 0..n ELSE {0}

Spend(failAt) == IF failAt > 0 THEN changesLeft - 1 ELSE changesLeft

\* The user edits the declaration of a resource that has a record.
EditDeclaration ==
    /\ changesLeft > 0
    /\ st # NoRecord
    /\ decl' \in Edits(kind, decl)
    /\ changesLeft' = changesLeft - 1
    /\ UNCHANGED <<kind, build, server, st, cat, last, deleteVars, applyVars>>

\* The handler op has returned r: the framework stores r.state.
Returns(op, plan, r, failAt) ==
    /\ st' = r.state
    /\ cat' = r.cat
    /\ last' = Call(op, plan, st, cat, r, failAt)
    /\ changesLeft' = Spend(failAt)

\* terraform apply with no record stored: Create from the declaration.
Create ==
    /\ st = NoRecord
    /\ \E failAt \in FailPoints(Len(CreateOp(kind, build, decl, cat, 0, server).log)) :
         Returns("Create", decl, CreateOp(kind, build, decl, cat, failAt, server), failAt)
    /\ UNCHANGED <<kind, build, server, decl, deleteVars, applyVars>>

\* terraform refresh: Read of the stored record.
Read ==
    /\ st # NoRecord
    /\ \E q \in FailPoints(Lookups(kind, build, st)) :
         Returns("Read", NoDecl, ReadOp(kind, build, st, cat, q, server), q)
    /\ UNCHANGED <<kind, build, server, decl, deleteVars, applyVars>>

\* terraform apply with a record stored that differs from the
\* declaration: Update.
Update ==
    /\ st # NoRecord
    /\ decl # DeclOf(st)
    /\ \E order \in UpdateOrders(kind, decl, st) :
         \E failAt \in
              FailPoints(Len(UpdateOp(kind, build, decl, st, cat, 0, server, order).log)) :
           Returns("Update", decl,
                   UpdateOp(kind, build, decl, st, cat, failAt, server, order), failAt)
    /\ UNCHANGED <<kind, build, server, decl, deleteVars, applyVars>>

\* terraform destroy: Delete of the stored record.
Delete ==
    /\ st # NoRecord
    /\ \E failAt \in FailPoints(Len(DeleteOp(kind, build, st, cat, 0, server).log)) :
         Returns("Delete", NoDecl, DeleteOp(kind, build, st, cat, failAt, server), failAt)
    /\ UNCHANGED <<kind, build, server, decl, deleteVars, applyVars>>

\* The view of the catalog that holds the grants of a resource type.
ViewsOf(k) ==
    CASE k = "system_privilege" -> {"sys"}
      [] k = "role_grant" -> {"role"}
      [] k = "object_privilege" -> {"obj"}
      [] k = "connection_grant" -> {"conn"}
      [] OTHER -> {"sys", "role", "obj"}

\* An external actor revokes a grant out-of-band.
ExternalRevoke ==
    /\ changesLeft > 0
    /\ \E v \in ViewsOf(kind) : \E row \in cat[v] : cat' = [cat EXCEPT ![v] = @ \ {row}]
    /\ changesLeft' = changesLeft - 1
    /\ UNCHANGED <<kind, build, server, decl, st, last, deleteVars, applyVars>>

\* An external actor grants out-of-band: it flips the admin option of a
\* grant, grants one more privilege on an object that has a grant, or
\* grants a connection to one more grantee.
ExternalGrant ==
    /\ changesLeft > 0
    /\ \/ \E v \in ViewsOf(kind) \cap {"sys", "role"} : \E row \in cat[v] :
            cat' = [cat EXCEPT ![v] = (@ \ {row}) \cup
                      {[row EXCEPT !.ADMIN_OPTION = ~row.ADMIN_OPTION]}]
       \/ /\ "obj" \in ViewsOf(kind)
          /\ \E row \in cat.obj : \E p \in PrivilegeNames :
               /\ [row EXCEPT !.PRIVILEGE = p] \notin cat.obj
               /\ cat' = [cat EXCEPT !.obj = @ \cup {[row EXCEPT !.PRIVILEGE = p]}]
       \/ /\ "conn" \in ViewsOf(kind)
          /\ \E row \in cat.conn : \E g \in Grantees :
               /\ [row EXCEPT !.GRANTEE = ToUpper(g)] \notin cat.conn
               /\ cat' = [cat EXCEPT !.conn = @ \cup {[row EXCEPT !.GRANTEE = ToUpper(g)]}]
    /\ changesLeft' = changesLeft - 1
    /\ UNCHANGED <<kind, build, server, decl, st, last, deleteVars, applyVars>>

Servers == [variant : ServerVariants, allExpands : BOOLEAN]

\* The server features a resource type can observe.
ServersOf(k) ==
    CASE k \in {"system_privilege", "role_grant"} ->
           [variant : ServerVariants, allExpands : {FALSE}]
      [] k = "connection_grant" -> [variant : {"TRUE/FALSE"}, allExpands : {FALSE}]
      [] OTHER -> [variant : {"TRUE/FALSE"}, allExpands : BOOLEAN]

\* The declarations a run starts from: for the object privilege the lists
\* without a repeated entry (an edit can repeat one later).
InitialDecls(k) ==
    IF k = "object_privilege"
    THEN {d \in ObjectPrivilegeDecls :
            \A i, j \in 1..Len(d.privileges) : d.privileges[i] = d.privileges[j] => i = j}
    ELSE Decls(k)

InitOf(k) ==
    /\ kind = k
    /\ build \in (IF k = "grant" THEN Builds ELSE {"unnamed/part_011"})
    /\ server \in ServersOf(k)
    /\ decl \in InitialDecls(k)
    /\ st = NoRecord
    /\ cat = EmptyCatalog
    /\ last = NoCall
    /\ changesLeft = MaxChanges
    /\ args = NoArgs
    /\ result = NoResult
    /\ deleteMutex = 0
    /\ dpc = [i \in 1..NumDeleters |-> "idle"]
    /\ dkind = [i \in 1..NumDeleters |-> "none"]

Init == \E k \in Kinds : InitOf(k)

Next == EditDeclaration \/ Create \/ Read \/ Update \/ Delete \/ ExternalRevoke \/ ExternalGrant

Spec == Init /\ [][Next]_vars

SpecSystemPrivilege == InitOf("system_privilege") /\ [][Next]_vars
SpecRoleGrant == InitOf("role_grant") /\ [][Next]_vars
SpecObjectPrivilege == InitOf("object_privilege") /\ [][Next]_vars
SpecConnectionGrant == InitOf("connection_grant") /\ [][Next]_vars
SpecGrant == InitOf("grant") /\ [][Next]_vars

---------------------------------------------------------------------------
(* Concurrent destroys.  Terraform runs the Deletes of independent          *)
(* resources in parallel goroutines of one provider process; a Delete that *)
(* calls lockDelete holds the process-wide mutex while its statements run.  *)

\* Whether the Delete of each resource type takes the delete mutex.
ObjectPrivilegeDeleteLocks == TRUE
SystemPrivilegeDeleteLocks == FALSE
RoleGrantDeleteLocks == FALSE
ConnectionGrantDeleteLocks == TRUE
GrantDeleteLocks(b) == b = "unnamed/part_011"
RoleDeleteLocks == TRUE
SchemaDeleteLocks == FALSE
UserDeleteLocks == FALSE
ConnectionDeleteLocks == TRUE

ResourceTypes == Kinds \cup {"role", "schema", "user", "connection"}

DeleteLocks(k, b) ==
    CASE k = "object_privilege" -> ObjectPrivilegeDeleteLocks
      [] k = "system_privilege" -> SystemPrivilegeDeleteLocks
      [] k = "role_grant" -> RoleGrantDeleteLocks
      [] k = "connection_grant" -> ConnectionGrantDeleteLocks
      [] k = "grant" -> GrantDeleteLocks(b)
      [] k = "role" -> RoleDeleteLocks
      [] k = "schema" -> SchemaDeleteLocks
      [] k = "user" -> UserDeleteLocks
      [] OTHER -> ConnectionDeleteLocks

Deleters == 1..NumDeleters

\* Terraform starts the Delete of a resource of type k in goroutine i.
DeleteStart(i, k) ==
    /\ dpc[i] = "idle"
    /\ dpc' = [dpc EXCEPT ![i] = "entry"]
    /\ dkind' = [dkind EXCEPT ![i] = k]
    /\ UNCHANGED <<deleteMutex, lifecycleVars, applyVars>>

\* lockDelete: blocks until the mutex is free.  A Delete without the call
\* goes straight on.
lockDelete(i) ==
    /\ dpc[i] = "entry"
    /\ IF DeleteLocks(dkind[i], build)
       THEN deleteMutex = 0 /\ deleteMutex' = i
       ELSE UNCHANGED deleteMutex
    /\ dpc' = [dpc EXCEPT ![i] = "statements"]
    /\ UNCHANGED <<dkind, lifecycleVars, applyVars>>

\* The ways a Delete leaves its body: "rejected" before any statement (the
\* state cannot be decoded, no database is configured, a name is not a valid
\* identifier, no REVOKE can be built), "failed" with a failing REVOKE or
\* DROP in the diagnostics, "return" after success.
DeleteExits == {"rejected", "failed", "return"}

\* The Delete returns before it executes a statement.
DeleteRejects(i) ==
    /\ dpc[i] = "statements"
    /\ dpc' = [dpc EXCEPT ![i] = "rejected"]
    /\ UNCHANGED <<deleteMutex, dkind, lifecycleVars, applyVars>>

\* The REVOKE or DROP statements of the Delete have run (or failed).
DeleteStatements(i) ==
    /\ dpc[i] = "statements"
    /\ \E exit \in {"failed", "return"} : dpc' = [dpc EXCEPT ![i] = exit]
    /\ UNCHANGED <<deleteMutex, dkind, lifecycleVars, applyVars>>

\* A Delete whose unlockDelete is not deferred: the returns before the end
\* of the body leave the mutex locked.
unlockDeleteAtEndOnly(i) ==
    /\ dpc[i] \in DeleteExits
    /\ deleteMutex' = IF deleteMutex = i /\ dpc[i] # "rejected" THEN 0 ELSE deleteMutex
    /\ dpc' = [dpc EXCEPT ![i] = "idle"]
    /\ dkind' = [dkind EXCEPT ![i] = "none"]
    /\ UNCHANGED <<lifecycleVars, applyVars>>

\* The Delete returns; the deferred unlockDelete releases the mutex.
unlockDelete(i) ==
    /\ dpc[i] \in DeleteExits
    /\ deleteMutex' = IF deleteMutex = i THEN 0 ELSE deleteMutex
    /\ dpc' = [dpc EXCEPT ![i] = "idle"]
    /\ dkind' = [dkind EXCEPT ![i] = "none"]
    /\ UNCHANGED <<lifecycleVars, applyVars>>

InitDelete ==
    /\ kind = "grant"
    /\ build \in Builds
    /\ server = [variant |-> "TRUE/FALSE", allExpands |-> FALSE]
    /\ decl = NoDecl
    /\ st = NoRecord
    /\ cat = EmptyCatalog
    /\ last = NoCall
    /\ changesLeft = 0
    /\ args = NoArgs
    /\ result = NoResult
    /\ deleteMutex = 0
    /\ dpc = [i \in Deleters |-> "idle"]
    /\ dkind = [i \in Deleters |-> "none"]

NextDelete ==
    \E i \in Deleters :
       \/ \E k \in ResourceTypes : DeleteStart(i, k)
       \/ lockDelete(i)
       \/ DeleteRejects(i)
       \/ DeleteStatements(i)
       \/ unlockDelete(i)

SpecDelete == InitDelete /\ [][NextDelete]_vars

\* The Go scheduler runs every runnable goroutine, so a Delete that can
\* take a step of its body or return takes it; sync.Mutex hands the lock to
\* a goroutine that has waited for it (starvation mode), so a Delete that
\* finds the mutex free again and again acquires it.  The statements of a
\* Delete are taken to return.
FairDelete ==
    \A i \in Deleters :
       /\ SF_vars(lockDelete(i))
       /\ WF_vars(DeleteRejects(i) \/ DeleteStatements(i))
       /\ WF_vars(unlockDelete(i))

SpecDeleteFair == SpecDelete /\ FairDelete

---------------------------------------------------------------------------
(* The functions of the provider applied to declarations that no schema    *)
(* validator excludes: names that hold the delimiters of the identifiers.  *)

\* No resource is being reconciled or destroyed.
Idle(k) ==
    /\ kind = k
    /\ build = "unnamed/part_011"
    /\ server = [variant |-> "TRUE/FALSE", allExpands |-> FALSE]
    /\ decl = NoDecl
    /\ st = NoRecord
    /\ cat = EmptyCatalog
    /\ last = NoCall
    /\ changesLeft = 0
    /\ deleteMutex = 0
    /\ dpc = [i \in Deleters |-> "idle"]
    /\ dkind = [i \in Deleters |-> "none"]

t_A == <<"A">>
t_B == <<"B">>
t_A_B == <<"A", "|", "B">>
t_B_A == <<"B", "|", "A">>
t_AcB == <<"A", ",", "B">>
t_AB == <<"A", "B">>
DelimitedNames == {t_A, t_B, t_AB, t_A_B, t_B_A}

\* The declarations the identifier functions are applied to.
IdentifierDecls(k) ==
    CASE k = "system_privilege" ->
           [grantee : DelimitedNames, privilege : DelimitedNames, admin : TriState]
      [] k = "role_grant" ->
           [role : DelimitedNames, grantee : DelimitedNames, admin : TriState]
      [] k = "connection_grant" ->
           [connectionName : DelimitedNames, grantee : DelimitedNames]
      [] k = "object_privilege" ->
           [grantee : {t_A, t_B},
            privileges : UNION {[1..n -> {t_A, t_B, t_AB, t_AcB}] : n \in 0..2},
            objectType : {t_A, t_A_B}, objectName : {t_A, t_B_A}]
      [] OTHER ->
           [granteeName : {t_A}, privilegeType : {s_SYSTEM, s_OBJECT}, privilege : {t_A, t_B},
            objectType : {NullString, t_A, t_A_B}, objectName : {NullString, t_A, t_B_A},
            admin : {"null", "true"}]

\* The identifier the resource of kind k computes for the declaration d.
identifierOf(k, d) ==
    CASE k = "system_privilege" -> systemPrivilegeID(d)
      [] k = "role_grant" -> roleGrantID(d)
      [] k = "connection_grant" ->
           connectionGrantID(ToUpper(d.connectionName), ToUpper(d.grantee))
      [] k = "object_privilege" -> objectPrivilegeID(d)
      [] OTHER -> idForGrant(d)

InitIdentifiers ==
    \E k \in Kinds :
       /\ Idle(k)
       /\ args \in IdentifierDecls(k) \X IdentifierDecls(k)
       /\ result = NoResult

\* The identifiers of two declarations of the same kind are computed.
Identify ==
    /\ result = NoResult
    /\ result' = <<identifierOf(kind, args[1]), identifierOf(kind, args[2])>>
    /\ UNCHANGED <<lifecycleVars, deleteVars, args>>

SpecIdentifiers == InitIdentifiers /\ [][Identify]_vars

---------------------------------------------------------------------------
(* The lifecycle of a resource whose declaration may name a grantee, role  *)
(* or connection that isValidIdentifier rejects.  The schemas put no       *)
(* validator on these attributes, so such a declaration reaches Create     *)
(* and Update; a record holds such a name once an Update has stored it.    *)

v_empty == <<>>
v_1A == <<"1", "A">>
v_a_b == <<"a", "-", "b">>
UnvalidatedNames == {n_R1, n_ROLE_A, v_empty, v_1A, v_a_b}

UnvalidatedDecls(k) ==
    CASE k = "system_privilege" ->
           [grantee : UnvalidatedNames, privilege : {s_CREATE_TABLE}, admin : {"null", "true"}]
      [] k = "role_grant" ->
           [role : UnvalidatedNames, grantee : UnvalidatedNames, admin : {"null"}]
      [] k = "connection_grant" ->
           [connectionName : UnvalidatedNames \cup {n_CONN_A}, grantee : UnvalidatedNames]
      [] k = "object_privilege" ->
           [grantee : UnvalidatedNames, privileges : {<<s_SELECT>>, <<s_SELECT, s_INSERT>>},
            objectType : {s_TABLE}, objectName : {n_S1}]
      [] OTHER ->
           [granteeName : UnvalidatedNames, privilegeType : {s_SYSTEM},
            privilege : {s_CREATE_TABLE}, objectType : {NullString},
            objectName : {NullString}, admin : {"null", "true"}]
           \cup
           [granteeName : {n_R1}, privilegeType : {s_OBJECT, s_ROLE},
            privilege : {s_SELECT}, objectType : {NullString, s_TABLE},
            objectName : {NullString, n_S1}, admin : {"null"}]

InitValidation ==
    \E k \in Kinds :
       /\ kind = k
       /\ build \in (IF k = "grant" THEN Builds ELSE {"unnamed/part_011"})
       /\ server = [variant |-> "TRUE/FALSE", allExpands |-> FALSE]
       /\ decl \in UnvalidatedDecls(k)
       /\ st = NoRecord
       /\ cat = EmptyCatalog
       /\ last = NoCall
       /\ changesLeft = 0
       /\ args = NoArgs
       /\ result = NoResult
       /\ deleteMutex = 0
       /\ dpc = [i \in Deleters |-> "idle"]
       /\ dkind = [i \in Deleters |-> "none"]

\* The user rewrites the declaration.
Redeclare ==
    /\ decl' \in UnvalidatedDecls(kind) \ {decl}
    /\ UNCHANGED <<kind, build, server, st, cat, last, changesLeft, deleteVars, applyVars>>

NextValidation == Redeclare \/ Create \/ Update \/ Delete

SpecValidation == InitValidation /\ [][NextValidation]_vars

---------------------------------------------------------------------------
(* The lifecycle of a resource that has been created and whose declaration *)
(* the user has then edited: the next apply is an Update, and one of its   *)
(* statements may fail.                                                    *)

\* The state after the Create of d0 has returned r and the declaration has
\* been rewritten as d1.
Applied(k, d0, d1, r) ==
    /\ kind = k
    /\ decl = d1
    /\ st = r.state
    /\ cat = r.cat
    /\ last = Call("Create", d0, NoRecord, EmptyCatalog, r, 0)
    /\ changesLeft = MaxChanges
    /\ args = NoArgs
    /\ result = NoResult
    /\ deleteMutex = 0
    /\ dpc = [i \in Deleters |-> "idle"]
    /\ dkind = [i \in Deleters |-> "none"]

\* The declarations a resource has been created from.
AppliedDecls(k) ==
    IF k = "object_privilege"
    THEN {d \in InitialDecls(k) : Len(d.privileges) < MaxPrivs}
    ELSE InitialDecls(k)

InitApplied ==
    \E k \in Kinds :
       /\ build \in (IF k = "grant" THEN Builds ELSE {"unnamed/part_011"})
       /\ server \in ServersOf(k)
       /\ \E d0 \in AppliedDecls(k) :
            \E d1 \in Edits(k, d0) :
               Applied(k, d0, d1, CreateOp(k, build, d0, EmptyCatalog, 0, server))

NextApplied == Create \/ Read \/ Update \/ Delete

SpecApplied == InitApplied /\ [][NextApplied]_vars

---------------------------------------------------------------------------

(* ConnectionGrantResource.Read applied to a stored record and a catalog   *)
(* whose connection-privilege view and object-privilege view both hold     *)
(* rows.                                                                   *)

s_CONNECTION == <<"C","O","N","N","E","C","T","I","O","N">>

ConnectionPrivRows ==
    {[GRANTEE |-> g, GRANTED_CONNECTION |-> n] :
       g \in {ToUpper(n_R1), ToUpper(n_R2)}, n \in {ToUpper(n_CONN_A), ToUpper(n_conn_b)}}

\* Rows of EXA_DBA_OBJ_PRIVS that name a connection as their object.
ConnectionObjRows ==
    {ObjRow(ToUpper(g), s_USAGE, s_CONNECTION, ToUpper(n)) :
       g \in {n_R1, n_R2}, n \in {n_CONN_A}}

ConnectionReadCatalogs ==
    {[EmptyCatalog EXCEPT !.conn = cs, !.obj = os] :
       cs \in {x \in SUBSET ConnectionPrivRows : Cardinality(x) < 3},
       os \in SUBSET ConnectionObjRows}

InitConnectionRead ==
    /\ Idle("connection_grant")
    /\ args \in [state : {ConnectionGrantRecord(d, ToUpper(d.connectionName), ToUpper(d.grantee)) :
                            d \in ConnectionGrantDecls},
                 cat : ConnectionReadCatalogs]
    /\ result = NoResult

\* Read of the record args.state against the catalog args.cat; the query
\* may fail.
ApplyConnectionRead ==
    /\ result = NoResult
    /\ \E queryError \in BOOLEAN :
         result' = [queryError |-> queryError,
                    response |-> ConnectionGrantRead(args.state, args.cat, queryError)]
    /\ UNCHANGED <<lifecycleVars, deleteVars, args>>

SpecConnectionRead == InitConnectionRead /\ [][ApplyConnectionRead]_vars

---------------------------------------------------------------------------

(* terraform import: ImportState builds a record from the identifier the   *)
(* user types, and the framework then calls Read on that record.           *)

ImportFailed == Response(NoRecord, EmptyCatalog, <<>>, TRUE)
Imported(record) == Response(record, EmptyCatalog, <<>>, FALSE)

\* strings.EqualFold(part, "true") as the value of with_admin_option.
ImportedAdmin(part) == IF EqualFold(part, s_true) THEN "true" ELSE "false"

\* SystemPrivilegeResource.ImportState
SystemPrivilegeImportParts(id, parts) ==
    IF Len(parts) # 3 THEN ImportFailed
    ELSE Imported([grantee |-> parts[1], privilege |-> parts[2],
                   admin |-> ImportedAdmin(parts[3]), id |-> id])
SystemPrivilegeImportState(id) == SystemPrivilegeImportParts(id, SplitOn(id, "|", <<>>))

\* RoleGrantResource.ImportState
RoleGrantImportParts(id, parts) ==
    IF Len(parts) # 3 THEN ImportFailed
    ELSE Imported([role |-> parts[1], grantee |-> parts[2],
                   admin |-> ImportedAdmin(parts[3]), id |-> id])
RoleGrantImportState(id) == RoleGrantImportParts(id, SplitOn(id, "|", <<>>))

\* ConnectionGrantResource.ImportState
ConnectionGrantImportParts(id, parts) ==
    IF Len(parts) # 2 THEN ImportFailed
    ELSE Imported([connectionName |-> ToUpper(parts[1]), grantee |-> ToUpper(parts[2]),
                   id |-> connectionGrantID(ToUpper(parts[1]), ToUpper(parts[2]))])
ConnectionGrantImportState(id) == ConnectionGrantImportParts(id, SplitOn(id, "|", <<>>))

\* ObjectPrivilegeResource.ImportState: the privileges are the
\* comma-separated parts, each with strings.TrimSpace applied.
TrimSpaces(l) == [i \in 1..Len(l) |-> Trim(l[i], " ")]
ObjectPrivilegeImportParts(id, parts) ==
    IF Len(parts) # 4 THEN ImportFailed
    ELSE Imported([grantee |-> parts[1],
                   privileges |-> TrimSpaces(SplitOn(parts[2], ",", <<>>)),
                   objectType |-> parts[3], objectName |-> parts[4], id |-> id])
ObjectPrivilegeImportState(id) == ObjectPrivilegeImportParts(id, SplitOn(id, "|", <<>>))

\* GrantResource.ImportState: object_type and object_name stay null when
\* their part is empty.
GrantImportParts(id, parts) ==
    IF Len(parts) # 6 THEN ImportFailed
    ELSE Imported([granteeName |-> parts[1], privilegeType |-> parts[2],
                   privilege |-> parts[3],
                   objectType |-> IF parts[4] # <<>> THEN parts[4] ELSE NullString,
                   objectName |-> IF parts[5] # <<>> THEN parts[5] ELSE NullString,
                   admin |-> ImportedAdmin(parts[6]), id |-> id])
GrantImportState(id) == GrantImportParts(id, SplitOn(id, "|", <<>>))

ImportStateOp(k, id) ==
    CASE k = "system_privilege" -> SystemPrivilegeImportState(id)
      [] k = "role_grant" -> RoleGrantImportState(id)
      [] k = "connection_grant" -> ConnectionGrantImportState(id)
      [] k = "object_privilege" -> ObjectPrivilegeImportState(id)
      [] OTHER -> GrantImportState(id)

s_create_table == <<"c","r","e","a","t","e"," ","t","a","b","l","e">>
s_SELECT_INSERT == <<"S","E","L","E","C","T",",","I","N","S","E","R","T">>
s_INSERT_SELECT == <<"I","N","S","E","R","T",",","S","E","L","E","C","T">>
s_SELECT__INSERT == <<"S","E","L","E","C","T",","," ","I","N","S","E","R","T">>

Bar(l) == Join(l, <<"|">>)

\* The identifiers a user may type, well-formed in several spellings and
\* ill-formed.
ImportIds(k) ==
    CASE k = "system_privilege" ->
           {Bar(<<g, p, a>>) : g \in {n_r1, n_R1}, p \in {s_CREATE_TABLE, s_create_table},
                               a \in {s_true, s_TRUE, s_false}}
           \cup {Bar(<<n_R1, s_CREATE_TABLE>>)}
      [] k = "role_grant" ->
           {Bar(<<r, g, a>>) : r \in Roles, g \in {n_r1, n_R1}, a \in {s_true, s_TRUE, s_false}}
           \cup {Bar(<<n_ROLE_A, n_R1>>)}
      [] k = "connection_grant" ->
           {Bar(<<n, g>>) : n \in Connections, g \in Grantees} \cup {n_CONN_A}
      [] k = "object_privilege" ->
           {Bar(<<g, l, s_TABLE, n>>) :
              g \in {n_r1, n_R1}, n \in ObjectNames,
              l \in {s_SELECT, s_SELECT_INSERT, s_INSERT_SELECT, s_SELECT__INSERT}}
           \cup {Bar(<<n_R1, s_SELECT, s_TABLE>>)}
      [] OTHER ->
           {Bar(<<g, s_SYSTEM, p, <<>>, <<>>, a>>) :
              g \in {n_r1, n_R1}, p \in {s_CREATE_TABLE, s_create_table},
              a \in {s_true, s_TRUE, s_false}}
           \cup {Bar(<<n_R1, s_OBJECT, s_SELECT, s_TABLE, n, s_false>>) : n \in ObjectNames}
           \cup {Bar(<<n_R1, s_SYSTEM, s_CREATE_TABLE>>)}

\* The grants another workspace has made and this one imports.
ImportedGrants(k) ==
    CASE k = "system_privilege" ->
           [grantee : {n_R1}, privilege : {s_CREATE_TABLE}, admin : {"null", "true"}]
      [] k = "role_grant" -> [role : Roles, grantee : {n_R1}, admin : {"null", "true"}]
      [] k = "connection_grant" -> [connectionName : Connections, grantee : {n_R1}]
      [] k = "object_privilege" ->
           [grantee : {n_R1}, privileges : {<<s_SELECT, s_INSERT>>}, objectType : {s_TABLE},
            objectName : ObjectNames]
      [] OTHER ->
           [granteeName : {n_R1}, privilegeType : {s_SYSTEM}, privilege : {s_CREATE_TABLE},
            objectType : {NullString}, objectName : {NullString}, admin : {"null", "true"}]
           \cup
           [granteeName : {n_R1}, privilegeType : {s_OBJECT}, privilege : {s_SELECT},
            objectType : {s_TABLE}, objectName : ObjectNames, admin : {"null"}]

InitImport ==
    \E k \in Kinds :
       /\ kind = k
       /\ build \in (IF k = "grant" THEN Builds ELSE {"unnamed/part_011"})
       /\ server \in ServersOf(k)
       /\ decl = NoDecl
       /\ st = NoRecord
       /\ \E d \in ImportedGrants(k) : cat = CreateOp(k, build, d, EmptyCatalog, 0, server).cat
       /\ last = NoCall
       /\ changesLeft = 0
       /\ args \in [id : ImportIds(k)]
       /\ result = NoResult
       /\ deleteMutex = 0
       /\ dpc = [i \in Deleters |-> "idle"]
       /\ dkind = [i \in Deleters |-> "none"]

\* terraform import: ImportState of the identifier args.id.
ImportState ==
    /\ st = NoRecord
    /\ last = NoCall
    /\ st' = ImportStateOp(kind, args.id).state
    /\ last' = Call("ImportState", NoDecl, NoRecord, cat,
                    [ImportStateOp(kind, args.id) EXCEPT !.cat = cat], 0)
    /\ UNCHANGED <<kind, build, server, decl, cat, changesLeft, deleteVars, applyVars>>

NextImport == ImportState \/ Read

SpecImport == InitImport /\ [][NextImport]_vars

---------------------------------------------------------------------------

(* Statements that carry a password, and what the handlers hand to tflog.  *)
(* A statement is the sequence of its keywords and characters.             *)

SQ == "'"
Quotes == {DQ, SQ}
PasswordLetters == {"p", "q"}
MaxPassword == 3
Passwords == UNION {[1..n -> PasswordLetters \cup Quotes] : n \in 1..MaxPassword}

k_IDENTIFIED_BY == "IDENTIFIED BY "
k_REDACTED == "***REDACTED***"

\* escapeStringLiteral: every single quote doubled.
RECURSIVE escapeStringLiteral(_)
escapeStringLiteral(s) ==
    IF s = <<>> THEN <<>>
    ELSE (IF Head(s) = SQ THEN <<SQ, SQ>> ELSE <<Head(s)>>) \o escapeStringLiteral(Tail(s))

\* buildCreateUserSQL and buildAlterUserSQL, auth_type PASSWORD.
buildCreateUserSQL(password) ==
    <<"CREATE USER ", DQ, "U1", DQ, " ", k_IDENTIFIED_BY, DQ>> \o password \o <<DQ>>
buildAlterUserSQL(password) ==
    <<"ALTER USER ", DQ, "U1", DQ, " ", k_IDENTIFIED_BY, DQ>> \o password \o <<DQ>>

\* buildCreateConnectionSQL and buildAlterConnectionSQL with a password.
buildCreateConnectionSQL(password) ==
    <<"CREATE CONNECTION ", DQ, "C1", DQ, " TO ", SQ, "host", SQ, " ", k_IDENTIFIED_BY, SQ>>
    \o escapeStringLiteral(password) \o <<SQ>>
buildAlterConnectionSQL(password) ==
    <<"ALTER CONNECTION ", DQ, "C1", DQ, " TO ", SQ, "host", SQ, " ", k_IDENTIFIED_BY, SQ>>
    \o escapeStringLiteral(password) \o <<SQ>>

\* The length of the longest prefix of s without a quote: [^"']+ is greedy.
RECURSIVE UnquotedRun(_)
UnquotedRun(s) == IF s = <<>> \/ Head(s) \in Quotes THEN 0 ELSE 1 + UnquotedRun(Tail(s))

\* Whether t, the text after IDENTIFIED BY, starts with a quote, at least
\* one character that is no quote, and a quote.
RedactionMatches(t) ==
    /\ Len(t) >= 3
    /\ t[1] \in Quotes
    /\ UnquotedRun(Tail(t)) >= 1
    /\ UnquotedRun(Tail(t)) + 2 <= Len(t)

\* sanitizeLogSQL: regexp ReplaceAllString of
\* (IDENTIFIED\s+BY\s+)["']([^"']+)["'] by ${1}"***REDACTED***".
RECURSIVE sanitizeLogSQL(_)
sanitizeLogSQL(sql) ==
    IF sql = <<>> THEN <<>>
    ELSE IF Head(sql) = k_IDENTIFIED_BY /\ RedactionMatches(Tail(sql))
    THEN <<k_IDENTIFIED_BY, DQ, k_REDACTED, DQ>>
         \o sanitizeLogSQL(SubSeq(Tail(sql), UnquotedRun(Tail(Tail(sql))) + 3, Len(sql) - 1))
    ELSE <<Head(sql)>> \o sanitizeLogSQL(Tail(sql))

\* A statement that carries a password and the "sql" field of the tflog
\* entry the handler writes for it.
Logged(sql, text) == [sql |-> sql, logged |-> text]
UserCreateLog(password) ==
    Logged(buildCreateUserSQL(password), buildCreateUserSQL(password))
UserUpdateLog(password) ==
    Logged(buildAlterUserSQL(password), buildAlterUserSQL(password))
ConnectionCreateLog(password) ==
    Logged(buildCreateConnectionSQL(password), sanitizeLogSQL(buildCreateConnectionSQL(password)))
ConnectionUpdateLog(password) ==
    Logged(buildAlterConnectionSQL(password), sanitizeLogSQL(buildAlterConnectionSQL(password)))

InitLog ==
    /\ Idle("grant")
    /\ args \in [password : Passwords]
    /\ result = NoResult

UserCreate ==
    /\ result = NoResult
    /\ result' = [op |-> "UserResource.Create", entry |-> UserCreateLog(args.password)]
    /\ UNCHANGED <<lifecycleVars, deleteVars, args>>

UserUpdate ==
    /\ result = NoResult
    /\ result' = [op |-> "UserResource.Update", entry |-> UserUpdateLog(args.password)]
    /\ UNCHANGED <<lifecycleVars, deleteVars, args>>

ConnectionCreate ==
    /\ result = NoResult
    /\ result' = [op |-> "ConnectionResource.Create",
                  entry |-> ConnectionCreateLog(args.password)]
    /\ UNCHANGED <<lifecycleVars, deleteVars, args>>

ConnectionUpdate ==
    /\ result = NoResult
    /\ result' = [op |-> "ConnectionResource.Update",
                  entry |-> ConnectionUpdateLog(args.password)]
    /\ UNCHANGED <<lifecycleVars, deleteVars, args>>

NextLog == UserCreate \/ UserUpdate \/ ConnectionCreate \/ ConnectionUpdate

SpecLog == InitLog /\ [][NextLog]_vars

---------------------------------------------------------------------------

(* qualify as a function of the declared object name: the rendering of     *)
(* helpers.go and the rendering that escapes what it cannot validate.      *)

\* escapeIdentifierLiteral: every double quote doubled.
RECURSIVE escapeIdentifierLiteral(_)
escapeIdentifierLiteral(s) ==
    IF s = <<>> THEN <<>>
    ELSE (IF Head(s) = DQ THEN <<DQ, DQ>> ELSE <<Head(s)>>) \o escapeIdentifierLiteral(Tail(s))

\* One part as the validating qualify renders it: trimmed, escaped unless
\* it is a valid identifier, wrapped in quotes.
QuoteValidatedPart(p) ==
    <<DQ>> \o (IF isValidIdentifier(Trim(p, DQ)) THEN Trim(p, DQ)
               ELSE escapeIdentifierLiteral(Trim(p, DQ))) \o <<DQ>>

\* qualify with validation of each part.
qualifyValidated(obj) ==
    Join([i \in 1..Len(SplitOn(obj, ".", <<>>)) |->
            QuoteValidatedPart(SplitOn(obj, ".", <<>>)[i])], <<".">>)

QualifyBuilds == {"internal/resources/helpers.go", "unnamed/part_014"}

QualifyOp(b, obj) ==
    IF b = "internal/resources/helpers.go" THEN qualify(obj) ELSE qualifyValidated(obj)

\* The server's reading of a rendered name: a quoted identifier runs from a
\* double quote to the next double quote that is not doubled, identifiers
\* are separated by single dots, and nothing else may appear.  mode is
\* "start" before an identifier, "in" inside one and "after" behind one;
\* the result is whether the text is such a name and the identifiers read.
RECURSIVE ReadName(_, _, _, _)
ReadName(s, mode, cur, ids) ==
    CASE mode = "start" ->
           IF s # <<>> /\ Head(s) = DQ THEN ReadName(Tail(s), "in", <<>>, ids)
           ELSE [ok |-> FALSE, ids |-> ids]
      [] mode = "in" ->
           IF s = <<>> THEN [ok |-> FALSE, ids |-> ids]
           ELSE IF Head(s) # DQ THEN ReadName(Tail(s), "in", Append(cur, Head(s)), ids)
           ELSE IF Len(s) > 1 /\ s[2] = DQ
                THEN ReadName(Tail(Tail(s)), "in", Append(cur, DQ), ids)
           ELSE ReadName(Tail(s), "after", <<>>, Append(ids, cur))
      [] OTHER ->
           IF s = <<>> THEN [ok |-> TRUE, ids |-> ids]
           ELSE IF Head(s) = "." THEN ReadName(Tail(s), "start", <<>>, ids)
           ELSE [ok |-> FALSE, ids |-> ids]

\* The characters and lengths of the object names qualify is applied to.
NameChars == {"a", DQ, ".", ";"}
MaxName == 4
RawNames == UNION {[1..n -> NameChars] : n \in 0..MaxName}

InitQualify ==
    /\ Idle("object_privilege")
    /\ args \in [build : QualifyBuilds, obj : RawNames]
    /\ result = NoResult

\* qualify is applied to the name.
ApplyQualify ==
    /\ result = NoResult
    /\ result' = [rendered |-> QualifyOp(args.build, args.obj)]
    /\ UNCHANGED <<lifecycleVars, deleteVars, args>>

SpecQualify == InitQualify /\ [][ApplyQualify]_vars

---------------------------------------------------------------------------

(* Properties.  last is the most recent handler call: its operation, the   *)
(* plan it was given, the record and the catalog it found, the record it   *)
(* returned and the statements it ran.                                     *)

\* Nothing outside the provider has happened so far: no edit of the
\* declaration, no out-of-band change, no failing statement or query.
Undisturbed == changesLeft = MaxChanges

\* The names of the declaration are written in upper case already.
UpperCaseNames(d) == \A f \in DOMAIN d \ {"admin", "privileges"} : d[f] = ToUpper(d[f])

\* The statements of the given verb a handler executed.
Statements(log, verb) == {i \in DOMAIN log : log[i].stmt.verb = verb}

\* The declaration names one privilege (every kind but the object
\* privilege does; an object privilege may list several).
SinglePrivilege(d) == "privileges" \in DOMAIN d => Len(d.privileges) = 1

\* C1: for the four grant kinds, as long as nothing outside the provider
\* happens, every Read of a created grant returns a record whose fields
\* equal the declaration as written (so no Update is planned).
C1_ReadReturnsDeclaration ==
    (/\ Undisturbed
     /\ kind \in {"system_privilege", "object_privilege", "role_grant", "connection_grant"}
     /\ UpperCaseNames(decl)
     /\ last.op = "Read")
    => (last.after # NoRecord /\ DeclOf(last.after) = decl)

\* A Read after a Create that returns the declaration.
C1_Witness ==
    /\ Undisturbed
    /\ kind = "role_grant"
    /\ last.op = "Read"
    /\ last.after # NoRecord
    /\ DeclOf(last.after) = decl

\* C2: a Read of a role grant whose stored with_admin_option is unset
\* leaves it unset.
C2_RoleGrantUnsetStaysUnset ==
    (/\ kind = "role_grant"
     /\ last.op = "Read"
     /\ IsNull(last.before.admin)
     /\ last.after # NoRecord)
    => IsNull(last.after.admin)

\* A Read of a role grant declared without with_admin_option has returned
\* a record.
C2_Witness ==
    /\ kind = "role_grant"
    /\ last.op = "Read"
    /\ IsNull(decl.admin)
    /\ IsNull(last.before.admin)
    /\ last.after # NoRecord

\* C3: a Create of a system privilege declared without with_admin_option
\* stores it unset, and a Read of a record whose with_admin_option is
\* unset leaves it unset, whatever the catalog reports.
C3_SystemPrivilegeUnsetStaysUnset ==
    /\ (/\ kind = "system_privilege"
        /\ last.op = "Create"
        /\ IsNull(last.plan.admin)
        /\ last.after # NoRecord)
       => IsNull(last.after.admin)
    /\ (/\ kind = "system_privilege"
        /\ last.op = "Read"
        /\ IsNull(last.before.admin)
        /\ last.after # NoRecord)
       => IsNull(last.after.admin)

\* A Read of a system privilege stored with with_admin_option unset has
\* returned a record while the catalog reports the admin option as set.
C3_Witness ==
    /\ kind = "system_privilege"
    /\ last.op = "Read"
    /\ IsNull(decl.admin)
    /\ IsNull(last.before.admin)
    /\ last.after # NoRecord
    /\ \E r \in cat.sys : r.ADMIN_OPTION

\* C4: as long as nothing outside the provider happens, the Create of a
\* declaration of one privilege executes exactly one statement, a GRANT,
\* and an Update (the second application, planned after a Read found the
\* grant) executes no statement.
C4_Idempotent ==
    (Undisturbed /\ UpperCaseNames(decl) /\ SinglePrivilege(decl)) =>
       /\ (last.op = "Create" /\ ~last.error) =>
             (Len(last.log) = 1 /\ Statements(last.log, "GRANT") = {1})
       /\ last.op = "Update" => last.log = <<>>

\* A Create of one privilege has executed its GRANT.
C4_Witness ==
    /\ Undisturbed
    /\ SinglePrivilege(decl)
    /\ last.op = "Create"
    /\ ~last.error
    /\ Statements(last.log, "GRANT") = {1}

\* The log holds one statement, the successful GRANT of privilege p.
OnlyTheGrantOf(log, p) ==
    /\ Len(log) = 1
    /\ log[1].stmt.verb = "GRANT"
    /\ log[1].stmt.what = p
    /\ log[1].ok

\* C5: no two Deletes execute their statements at the same time.
C5_DeletesSerialized ==
    \A i, j \in Deleters : (dpc[i] = "statements" /\ dpc[j] = "statements") => i = j

\* One Delete executes its statements under the mutex while another
\* Delete that takes the mutex waits for it.
C5_Witness ==
    \E i, j \in Deleters :
       /\ dpc[i] = "statements" /\ deleteMutex = i
       /\ dpc[j] = "entry" /\ DeleteLocks(dkind[j], build)

\* The stored privilege p has a row in the catalog for the upper-cased
\* target of record m, or p is ALL and the target has a row of any name.
Present(c, m, p) ==
    \E r \in c.obj :
       /\ r.GRANTEE = ToUpper(m.grantee)
       /\ r.OBJECT_TYPE = ToUpper(m.objectType)
       /\ r.OBJECT_NAME = ToUpper(m.objectName)
       /\ (r.PRIVILEGE = ToUpper(p) \/ ToUpper(p) = s_ALL)

\* The stored privileges of m that are present, in stored order.
PresentOf(c, m) ==
    LET Test(p) == Present(c, m, p) IN SelectSeq(m.privileges, Test)

\* C6: a Read of an object privilege that meets no query error removes
\* the record iff no stored privilege is present in the catalog, and
\* otherwise returns the record with exactly the present stored
\* privileges, in stored order, and the identifier computed from them.
C6_ReadKeepsPresentPrivileges ==
    (kind = "object_privilege" /\ last.op = "Read" /\ ~last.error) =>
       IF PresentOf(last.cat, last.before) = <<>>
       THEN last.after = NoRecord
       ELSE /\ last.after # NoRecord
            /\ last.after.privileges = PresentOf(last.cat, last.before)
            /\ DeclOf(last.after) =
                 [DeclOf(last.before) EXCEPT !.privileges = PresentOf(last.cat, last.before)]
            /\ last.after.id = objectPrivilegeID(last.after)

\* A Read has found a strict, non-empty part of the stored privileges.
C6_Witness ==
    /\ kind = "object_privilege"
    /\ last.op = "Read"
    /\ ~last.error
    /\ last.after # NoRecord
    /\ Len(last.after.privileges) > 0
    /\ Len(last.after.privileges) < Len(last.before.privileges)
    /\ last.after.id # last.before.id

\* The privileges named by the statements of a log that have the verb.
Named(log, verb) == {log[i].stmt.what : i \in Statements(log, verb)}

\* C7: an Update of an object privilege whose grantee, object type and
\* object name are unchanged, and that no statement aborts, executes one
\* REVOKE for each stored privilege that is not planned, one GRANT for
\* each planned privilege that is not stored, and nothing else.
C7_UpdateIssuesTheDifference ==
    (/\ kind = "object_privilege"
     /\ last.op = "Update"
     /\ ~last.error
     /\ last.plan.grantee = last.before.grantee
     /\ last.plan.objectType = last.before.objectType
     /\ last.plan.objectName = last.before.objectName)
    => /\ Named(last.log, "REVOKE") =
            SeqToSet(last.before.privileges) \ SeqToSet(last.plan.privileges)
       /\ Named(last.log, "GRANT") =
            SeqToSet(last.plan.privileges) \ SeqToSet(last.before.privileges)
       /\ Len(last.log) =
            Cardinality(Named(last.log, "REVOKE")) + Cardinality(Named(last.log, "GRANT"))

\* INSERT was revoked out-of-band and dropped by a Read; the Update from
\* stored [USAGE, SELECT] to planned [USAGE, SELECT, INSERT] has executed
\* one statement, the GRANT of INSERT.
C7_Witness ==
    /\ kind = "object_privilege"
    /\ last.op = "Update"
    /\ last.before.privileges = <<s_USAGE, s_SELECT>>
    /\ last.plan.privileges = <<s_USAGE, s_SELECT, s_INSERT>>
    /\ OnlyTheGrantOf(last.log, s_INSERT)
    /\ changesLeft < MaxChanges

\* The plan differs from the stored record in the object name only.
OnlyObjectNameDiffers(plan, before) ==
    /\ "objectName" \in DOMAIN plan
    /\ ~IsNullString(plan.objectName)
    /\ ~IsNullString(before.objectName)
    /\ plan.objectName # before.objectName
    /\ \A f \in DOMAIN plan \ {"objectName"} : plan[f] = before[f]

\* The record of the plan with its identifier recomputed.
Renamed(k, plan) == IF k = "object_privilege" THEN ObjectPrivilegeRecord(plan, plan.privileges)
                    ELSE GrantRecord(plan)

\* C8 as stated: an Update of an object privilege or of a legacy grant in
\* which only the object name differs executes no statement and stores
\* the plan with the recomputed identifier, whatever the object type.
C8_RenameIssuesNothing ==
    (/\ kind \in {"object_privilege", "grant"}
     /\ last.op = "Update"
     /\ OnlyObjectNameDiffers(last.plan, last.before))
    => (last.log = <<>> /\ ~last.error /\ last.after = Renamed(kind, last.plan))

\* What Update does instead (C8): only the legacy grant on a SCHEMA treats
\* the changed object name as a rename and executes nothing.  For another
\* object type the legacy grant first revokes the stored grant on the old
\* name; the object privilege revokes every stored privilege on the old
\* name and then, unless a GRANT fails, grants every planned one on the
\* new name.
C8_OnlyLegacySchemaRenameIssuesNothing ==
    (last.op = "Update" /\ OnlyObjectNameDiffers(last.plan, last.before)) =>
       CASE kind = "grant" /\ last.plan.objectType = s_SCHEMA ->
              last.log = <<>> /\ ~last.error /\ last.after = Renamed(kind, last.plan)
         [] kind = "grant" ->
              /\ last.log # <<>>
              /\ last.log[1].stmt.verb = "REVOKE"
              /\ last.log[1].stmt.objName = qualify(last.before.objectName)
         [] OTHER ->
              /\ Len(last.log) >= Len(last.before.privileges)
              /\ \A i \in 1..Len(last.before.privileges) :
                    /\ last.log[i].stmt.verb = "REVOKE"
                    /\ last.log[i].stmt.what = last.before.privileges[i]
                    /\ last.log[i].stmt.objName = qualify(last.before.objectName)
              /\ \A i \in (Len(last.before.privileges) + 1)..Len(last.log) :
                    /\ last.log[i].stmt.verb = "GRANT"
                    /\ last.log[i].stmt.objName = qualify(last.plan.objectName)
              /\ ~last.error =>
                    Len(last.log) = Len(last.before.privileges) + Len(last.plan.privileges)

\* An Update of an object privilege whose schema name alone has changed
\* has executed a REVOKE on the old name and a GRANT on the new one.
C8_Witness ==
    /\ kind = "object_privilege"
    /\ last.op = "Update"
    /\ OnlyObjectNameDiffers(last.plan, last.before)
    /\ last.plan.objectType = s_SCHEMA
    /\ ~last.error
    /\ Len(last.log) = 2
    /\ last.log[1].stmt.verb = "REVOKE"
    /\ last.log[2].stmt.verb = "GRANT"

\* The rows of the catalog for the upper-cased target of the legacy
\* record m.
TargetRows(c, m) ==
    {r \in c.obj : /\ r.GRANTEE = ToUpper(m.granteeName)
                   /\ r.OBJECT_TYPE = ToUpper(m.objectType)
                   /\ r.OBJECT_NAME = ToUpper(m.objectName)}

\* C9: a Read of a legacy grant of ALL on an object keeps the record iff
\* the catalog holds a literal ALL row or at least one row of any
\* privilege for the target, and the check of the object privilege gives
\* the same answer on the same catalog.
C9_AllIsSatisfiedByAnyRow ==
    (/\ kind = "grant"
     /\ last.op = "Read"
     /\ ~last.error
     /\ ToUpper(last.before.privilegeType) = s_OBJECT
     /\ ToUpper(last.before.privilege) = s_ALL)
    => /\ (last.after # NoRecord) =
             (\/ \E r \in TargetRows(last.cat, last.before) : r.PRIVILEGE = s_ALL
              \/ Cardinality(TargetRows(last.cat, last.before)) >= 1)
       /\ (last.after # NoRecord) =
             checkObjectPrivilegeExists(last.cat, ToUpper(last.before.granteeName), s_ALL,
                                        ToUpper(last.before.objectType),
                                        ToUpper(last.before.objectName))

\* A Read of a legacy grant of ALL has found the grant in a catalog that
\* holds only expanded privileges, no literal ALL row.
C9_Witness ==
    /\ kind = "grant"
    /\ build = "unnamed/part_011"
    /\ last.op = "Read"
    /\ ToUpper(last.before.privilege) = s_ALL
    /\ last.after # NoRecord
    /\ TargetRows(last.cat, last.before) # {}
    /\ \A r \in TargetRows(last.cat, last.before) : r.PRIVILEGE # s_ALL

\* The catalog c holds a row for the stored grant m of kind k, names
\* compared without regard to case.
SysRowFor(c, g, p) ==
    \E r \in c.sys : EqualFold(r.GRANTEE, g) /\ EqualFold(r.PRIVILEGE, p)
RoleRowFor(c, role, g) ==
    \E r \in c.role : EqualFold(r.GRANTED_ROLE, role) /\ EqualFold(r.GRANTEE, g)
ConnRowFor(c, conn, g) ==
    \E r \in c.conn : EqualFold(r.GRANTED_CONNECTION, conn) /\ EqualFold(r.GRANTEE, g)
ObjRowFor(c, g, p, t, n) ==
    \E r \in c.obj : /\ EqualFold(r.GRANTEE, g)
                     /\ EqualFold(r.OBJECT_TYPE, t)
                     /\ EqualFold(r.OBJECT_NAME, n)
                     /\ (EqualFold(r.PRIVILEGE, p) \/ EqualFold(p, s_ALL))
RowFor(k, c, m) ==
    CASE k = "system_privilege" -> SysRowFor(c, m.grantee, m.privilege)
      [] k = "role_grant" -> RoleRowFor(c, m.role, m.grantee)
      [] k = "connection_grant" -> ConnRowFor(c, m.connectionName, m.grantee)
      [] k = "object_privilege" ->
           \E i \in 1..Len(m.privileges) :
              ObjRowFor(c, m.grantee, m.privileges[i], m.objectType, m.objectName)
      [] OTHER ->
           IF EqualFold(m.privilegeType, s_OBJECT)
           THEN ObjRowFor(c, m.granteeName, m.privilege, m.objectType, m.objectName)
           ELSE \/ SysRowFor(c, m.granteeName, m.privilege)
                \/ RoleRowFor(c, m.privilege, m.granteeName)

\* C10: for every grant kind, a Read whose queries succeed on a catalog
\* that holds no row for the stored grant removes the record and reports
\* no error.
C10_ReadRemovesAbsentGrant ==
    (last.op = "Read" /\ ~last.fault /\ ~RowFor(kind, last.cat, last.before))
    => (last.after = NoRecord /\ ~last.error)

\* A Read has kept the record of a grant that was revoked out-of-band.
C10_Witness ==
    /\ last.op = "Read"
    /\ ~last.error
    /\ ~RowFor(kind, last.cat, last.before)
    /\ last.after # NoRecord

\* C11: a Read in which a catalog query fails with an error other than
\* not-found reports an error, executes nothing and leaves the stored
\* record exactly as it was, whichever lookup of a multi-privilege
\* record it was that failed.
C11_ReadQueryErrorKeepsRecord ==
    (last.op = "Read" /\ last.fault)
    => /\ last.error
       /\ last.after = last.before
       /\ last.log = <<>>
       /\ st = last.before

\* The second lookup of a Read of an object privilege has failed.
C11_Witness ==
    /\ kind = "object_privilege"
    /\ last.op = "Read"
    /\ last.fault
    /\ Len(last.before.privileges) >= 2
    /\ last.error
    /\ last.after = last.before

\* The lists that hold the entries of l in some order.
Reorderings(l) ==
    {p \in [1..Len(l) -> SeqToSet(l)] :
        \A x \in SeqToSet(l) :
           Cardinality({i \in 1..Len(l) : p[i] = x}) = Cardinality({i \in 1..Len(l) : l[i] = x})}

\* The record m with its privileges list replaced by l.
WithPrivileges(m, l) ==
    [grantee |-> m.grantee, privileges |-> l, objectType |-> m.objectType,
     objectName |-> m.objectName]

\* C12: the identifier that Create, Read or Update of an object privilege
\* persists is the identifier of every reordering of the privileges list:
\* of the stored list, of the planned list for Create and Update, and of
\* the list a Read started from (read against the same catalog).
C12_OrderIndependentId ==
    (/\ kind = "object_privilege"
     /\ last.op \in {"Create", "Read", "Update"}
     /\ ~last.error
     /\ last.after # NoRecord)
    => /\ \A l \in Reorderings(last.after.privileges) :
             objectPrivilegeID(WithPrivileges(last.after, l)) = last.after.id
       /\ last.op \in {"Create", "Update"} =>
             \A l \in Reorderings(last.plan.privileges) :
                objectPrivilegeID(WithPrivileges(last.plan, l)) = last.after.id
       /\ last.op = "Read" =>
             \A l \in Reorderings(last.before.privileges) :
                ObjectPrivilegeRead(ObjectPrivilegeRecord(last.before, l), last.cat, 0).state.id
                   = last.after.id

\* An Update to the same privileges in another order has kept the
\* identifier.
C12_Witness ==
    /\ kind = "object_privilege"
    /\ last.op = "Update"
    /\ ~last.error
    /\ last.plan.privileges # last.before.privileges
    /\ last.plan.privileges \in Reorderings(last.before.privileges)
    /\ last.after.privileges = last.plan.privileges
    /\ last.after.id = last.before.id

\* The list l without the entries that repeat, in any letter case, an
\* earlier entry.
RECURSIVE Dedup(_)
Dedup(l) ==
    IF l = <<>> THEN <<>>
    ELSE IF \E i \in 1..(Len(l) - 1) : EqualFold(l[i], l[Len(l)])
         THEN Dedup(SubSeq(l, 1, Len(l) - 1))
         ELSE Append(Dedup(SubSeq(l, 1, Len(l) - 1)), l[Len(l)])

\* C13: the identifier persisted by Create or Update of an object
\* privilege is the identifier of the planned list with its repeated
\* entries removed.
C13_DuplicatesDoNotChangeId ==
    (/\ kind = "object_privilege"
     /\ last.op \in {"Create", "Update"}
     /\ ~last.error
     /\ last.after # NoRecord)
    => last.after.id = objectPrivilegeID(WithPrivileges(last.plan, Dedup(last.plan.privileges)))

\* An Update has stored a list with a repeated privilege under an
\* identifier that names the privilege twice.
C13_Witness ==
    /\ kind = "object_privilege"
    /\ last.op = "Update"
    /\ ~last.error
    /\ Dedup(last.plan.privileges) # last.plan.privileges
    /\ last.after.id = objectPrivilegeID(last.plan)
    /\ last.after.id # objectPrivilegeID(WithPrivileges(last.plan, Dedup(last.plan.privileges)))

\* What a declaration of kind k grants: the upper-cased grantee, the set
\* of upper-cased privileges, the object type and name, the role or
\* connection.
EffectiveGrant(k, d) ==
    CASE k = "system_privilege" -> <<ToUpper(d.grantee), ToUpper(d.privilege)>>
      [] k = "role_grant" -> <<ToUpper(d.grantee), ToUpper(d.role)>>
      [] k = "connection_grant" -> <<ToUpper(d.grantee), ToUpper(d.connectionName)>>
      [] k = "object_privilege" ->
           <<ToUpper(d.grantee), SeqToSet(MapUpper(d.privileges)), ToUpper(d.objectType),
             ToUpper(d.objectName)>>
      [] OTHER ->
           <<ToUpper(d.granteeName), ToUpper(d.privilegeType), ToUpper(d.privilege),
             ToUpper(ValueString(d.objectType)), ValueString(d.objectName)>>

NoDelimiter(name) == \A i \in 1..Len(name) : name[i] \notin {"|", ","}
DelimiterFree(d) ==
    \A f \in DOMAIN d \ {"admin"} :
       IF f = "privileges" THEN \A i \in 1..Len(d[f]) : NoDelimiter(d[f][i])
       ELSE NoDelimiter(d[f])

DedicatedKinds == {"system_privilege", "role_grant", "object_privilege", "connection_grant"}

\* The grantees that differ from g in letter case at most.
CaseVariants(g) == {x \in Grantees : EqualFold(x, g)}

\* The record or declaration m with the grantee written as g.
WithGrantee(m, g) == [m EXCEPT !.grantee = g]

\* The response r carries the statements, the error flag and the
\* identifier of the call l.
SameStatementsAndId(r, l) ==
    /\ r.log = l.log
    /\ r.error = l.error
    /\ (r.state = NoRecord) = (l.after = NoRecord)
    /\ r.state # NoRecord => r.state.id = l.after.id

\* Every statement of the response r names the grantee of l in upper
\* case, and the record r stores has the identifier of the record of l.
SameGranteeAndId(r, l) ==
    /\ \A i \in 1..Len(r.log) :
          r.log[i].stmt.grantee =
             ToUpper(IF r.log[i].stmt.verb = "GRANT" THEN l.plan.grantee ELSE l.before.grantee)
    /\ (r.state # NoRecord /\ l.after # NoRecord) => r.state.id = l.after.id

\* C15: for the four dedicated kinds, a Create, Update or Delete that
\* meets no failure names the grantee in upper case in every statement;
\* the same operation on a declaration or record that differs in the
\* letter case of the grantee only names the same grantee in every
\* statement and persists the same identifier, and for Create and Delete
\* executes the very same statements.
C15_GranteeCaseFolded ==
    (kind \in DedicatedKinds /\ last.op \in {"Create", "Update", "Delete"} /\ ~last.fault)
    => /\ \A i \in 1..Len(last.log) :
             last.log[i].stmt.grantee =
                ToUpper(IF last.log[i].stmt.verb = "GRANT" THEN last.plan.grantee
                        ELSE last.before.grantee)
       /\ last.op = "Create" =>
             \A g \in CaseVariants(last.plan.grantee) :
                SameStatementsAndId(
                   CreateOp(kind, build, WithGrantee(last.plan, g), last.cat, 0, server), last)
       /\ last.op = "Update" =>
             /\ \A g \in CaseVariants(last.plan.grantee) :
                   \A order \in UpdateOrders(kind, WithGrantee(last.plan, g), last.before) :
                      SameGranteeAndId(
                         UpdateOp(kind, build, WithGrantee(last.plan, g), last.before,
                                  last.cat, 0, server, order), last)
             /\ \A g \in CaseVariants(last.before.grantee) :
                   \A order \in UpdateOrders(kind, last.plan, WithGrantee(last.before, g)) :
                      SameGranteeAndId(
                         UpdateOp(kind, build, last.plan, WithGrantee(last.before, g),
                                  last.cat, 0, server, order), last)
       /\ last.op = "Delete" =>
             \A g \in CaseVariants(last.before.grantee) :
                SameStatementsAndId(
                   DeleteOp(kind, build, WithGrantee(last.before, g), last.cat, 0, server), last)

\* A Create for a grantee written in lower case has granted to the
\* upper-case grantee under the identifier of the upper-case declaration.
C15_Witness ==
    /\ kind \in DedicatedKinds
    /\ last.op = "Create"
    /\ ~last.error
    /\ last.plan.grantee = n_r1
    /\ Len(last.log) >= 1
    /\ last.log[1].stmt.grantee = n_R1
    /\ last.after.id = CreateOp(kind, build, WithGrantee(last.plan, n_R1), last.cat, 0, server).state.id

\* The names of a record or declaration as they are written: grantee,
\* privilege or privileges, role, connection name.
WrittenNames(m) ==
    [f \in DOMAIN m \cap {"grantee", "granteeName", "privilege", "privileges", "role",
                          "connectionName"} |-> m[f]]

\* C16: a Read of the record that Create stored for the declaration, with
\* nothing changed in between, returns the grantee, privilege names, role
\* and connection name exactly as the declaration writes them.
C16_ReadKeepsNamesAsWritten ==
    (/\ last.op = "Read"
     /\ Undisturbed
     /\ ~last.error
     /\ last.after # NoRecord
     /\ DeclOf(last.before) = decl)
    => WrittenNames(last.after) = WrittenNames(decl)

\* A Read has returned the grantee of a connection grant in upper case
\* for a declaration that writes it in lower case.
C16_Witness ==
    /\ kind = "connection_grant"
    /\ last.op = "Read"
    /\ Undisturbed
    /\ decl.grantee = n_r1
    /\ last.before.grantee = n_r1
    /\ last.after # NoRecord
    /\ last.after.grantee = n_R1

\* The plan differs from the stored record, and in letter case only.
DiffersInCaseOnly(plan, before) ==
    /\ plan # DeclOf(before)
    /\ \A f \in DOMAIN plan :
          IF f = "admin" THEN plan[f] = before[f]
          ELSE IF f = "privileges" THEN MapUpper(plan[f]) = MapUpper(before[f])
          ELSE EqualFold(plan[f], before[f])

\* C17: an Update whose plan differs from the stored record in letter
\* case only executes no statement, for every grant kind.
C17_CaseOnlyUpdateIssuesNothing ==
    (last.op = "Update" /\ DiffersInCaseOnly(last.plan, last.before)) => last.log = <<>>

\* An Update of a system privilege to the same grantee in another letter
\* case has revoked and granted again.
C17_Witness ==
    /\ kind = "system_privilege"
    /\ last.op = "Update"
    /\ DiffersInCaseOnly(last.plan, last.before)
    /\ Len(last.log) = 2
    /\ last.log[1].stmt.verb = "REVOKE"
    /\ last.log[2].stmt.verb = "GRANT"
    /\ last.log[1].stmt.grantee = last.log[2].stmt.grantee

\* The ADMIN_OPTION text the catalog c returns for the stored record of a
\* system privilege or role grant on the server at hand, and whether the
\* grant was made WITH ADMIN OPTION.
AdminRows(k, c, m) ==
    IF k = "system_privilege" THEN SysRows(c, ToUpper(m.grantee), ToUpper(m.privilege))
    ELSE RoleRows(c, ToUpper(m.role), ToUpper(m.grantee))
GrantedWithAdmin(k, c, m) == \E r \in AdminRows(k, c, m) : r.ADMIN_OPTION
ObservedAdminText(k, c, m) == AdminText(server.variant, GrantedWithAdmin(k, c, m))

\* C18: a Read of a system privilege whose admin option is declared
\* stores true if the catalog returns TRUE, true or 1 for ADMIN_OPTION and
\* false otherwise: a grant made WITH ADMIN OPTION is read back as true on
\* every server variant.
C18_SystemPrivilegeAdminNormalized ==
    (/\ kind = "system_privilege"
     /\ last.op = "Read"
     /\ ~last.error
     /\ last.after # NoRecord
     /\ ~IsNull(last.before.admin))
    => /\ last.after.admin =
             (IF ObservedAdminText(kind, last.cat, last.before) \in {s_TRUE, s_true, s_1}
              THEN "true" ELSE "false")
       /\ GrantedWithAdmin(kind, last.cat, last.before) => last.after.admin = "true"

\* A Read has stored false for a system privilege that the catalog, on a
\* server that renders the flag as true or 1, reports WITH ADMIN OPTION.
C18_Witness ==
    /\ kind = "system_privilege"
    /\ last.op = "Read"
    /\ ~last.error
    /\ last.before.admin = "true"
    /\ GrantedWithAdmin(kind, last.cat, last.before)
    /\ ObservedAdminText(kind, last.cat, last.before) \in {s_true, s_1}
    /\ last.after.admin = "false"

\* C19: whatever ADMIN_OPTION text a Read of a system privilege or of a
\* role grant gets from the catalog, the two resources turn it into the
\* same boolean for a declared admin option, and into true for TRUE, true
\* and 1.
C19_SameAdminNormalization ==
    (/\ kind \in {"system_privilege", "role_grant"}
     /\ last.op = "Read"
     /\ ~last.error
     /\ last.after # NoRecord)
    => \A stored \in {"true", "false"} :
          /\ SystemPrivilegeReadAdmin(stored, ObservedAdminText(kind, last.cat, last.before))
               = RoleGrantReadAdmin(stored, ObservedAdminText(kind, last.cat, last.before))
          /\ ObservedAdminText(kind, last.cat, last.before) \in {s_TRUE, s_true, s_1}
               => SystemPrivilegeReadAdmin(stored,
                     ObservedAdminText(kind, last.cat, last.before)) = "true"

\* A Read of a role grant has got the text true or 1 from the catalog and
\* stored true, where the Read of a system privilege makes false of it.
C19_Witness ==
    /\ kind = "role_grant"
    /\ last.op = "Read"
    /\ ~last.error
    /\ ObservedAdminText(kind, last.cat, last.before) \in {s_true, s_1}
    /\ last.after.admin = "true"
    /\ SystemPrivilegeReadAdmin("true", ObservedAdminText(kind, last.cat, last.before)) = "false"

\* The attributes of a declaration or record of kind k that name a
\* grantee, a role or a connection.
NameAttributes(k) ==
    CASE k = "system_privilege" -> {"grantee"}
      [] k = "role_grant" -> {"role", "grantee"}
      [] k = "connection_grant" -> {"connectionName", "grantee"}
      [] k = "object_privilege" -> {"grantee"}
      [] OTHER -> {"granteeName"}

HasInvalidName(k, m) ==
    /\ m # NoDecl
    /\ m # NoRecord
    /\ \E f \in NameAttributes(k) : ~isValidIdentifier(m[f])

\* C20: a Create, Update or Delete of any grant kind whose planned
\* declaration or stored record names a grantee, role or connection that is
\* not a valid identifier reports an error and executes no statement.
C20_InvalidNameFailsFast ==
    (/\ last.op \in {"Create", "Update", "Delete"}
     /\ HasInvalidName(kind, last.plan) \/ HasInvalidName(kind, last.before))
    => last.error /\ last.log = <<>>

\* The same for the Create of the dedicated resources, which all validate.
C20_InvalidNameFailsCreate ==
    (kind \in DedicatedKinds /\ last.op = "Create" /\ HasInvalidName(kind, last.plan))
    => last.error /\ last.log = <<>> /\ last.after = NoRecord

\* An Update whose plan names an invalid grantee has executed a statement.
C20_Witness ==
    /\ last.op = "Update"
    /\ HasInvalidName(kind, last.plan)
    /\ ~HasInvalidName(kind, last.before)
    /\ last.log # <<>>

\* The statements of log: a REVOKE that succeeded and, later, a GRANT that
\* failed.
RevokedThenGrantFailed(log) ==
    \E i, j \in DOMAIN log :
       /\ i < j
       /\ log[i].stmt.verb = "REVOKE" /\ log[i].ok
       /\ log[j].stmt.verb = "GRANT" /\ ~log[j].ok

\* C21: an Update of any grant kind in which a REVOKE has succeeded and a
\* later GRANT has failed reports an error and leaves the stored record as
\* it was before the Update.
C21_FailedUpdateNotPersisted ==
    (last.op = "Update" /\ RevokedThenGrantFailed(last.log))
    => /\ last.error
       /\ last.after = last.before
       /\ st = last.before
       /\ DeclOf(st) # last.plan

\* An Update has revoked the old grant and failed to grant the new one.
C21_Witness ==
    /\ last.op = "Update"
    /\ RevokedThenGrantFailed(last.log)
    /\ last.error
    /\ last.cat # cat

\* The resources whose grant is one (name, grantee) pair, and the pair a
\* declaration or record of theirs names, upper-cased.
NamedKinds == {"system_privilege", "role_grant", "connection_grant"}
NamedPair(k, m) ==
    CASE k = "system_privilege" -> <<ToUpper(m.privilege), ToUpper(m.grantee)>>
      [] k = "role_grant" -> <<ToUpper(m.role), ToUpper(m.grantee)>>
      [] OTHER -> <<ToUpper(m.connectionName), ToUpper(m.grantee)>>
StmtPair(s) == <<s.what, s.grantee>>

\* C22: when the grantee, privilege, role or connection name of a system
\* privilege, role grant or connection grant changes, Update issues one
\* REVOKE of the stored grant and then one GRANT of the planned grant, in
\* that order; when the REVOKE fails it issues no GRANT.
C22_RevokeOldThenGrantNew ==
    (/\ kind \in NamedKinds
     /\ last.op = "Update"
     /\ NamedPair(kind, last.plan) # NamedPair(kind, last.before))
    => /\ Len(last.log) \in {1, 2}
       /\ last.log[1].stmt.verb = "REVOKE"
       /\ StmtPair(last.log[1].stmt) = NamedPair(kind, last.before)
       /\ last.log[1].ok =>
            /\ Len(last.log) = 2
            /\ last.log[2].stmt.verb = "GRANT"
            /\ StmtPair(last.log[2].stmt) = NamedPair(kind, last.plan)
       /\ ~last.log[1].ok => Len(last.log) = 1 /\ last.error /\ cat = last.cat

\* An Update of a renamed grant has stopped at its failing REVOKE.
C22_Witness ==
    /\ kind \in NamedKinds
    /\ last.op = "Update"
    /\ NamedPair(kind, last.plan) # NamedPair(kind, last.before)
    /\ ~last.log[1].ok
    /\ Len(last.log) = 1

ConnectionKeyRows(c, m) ==
    {r \in c.conn : r.GRANTED_CONNECTION = ToUpper(m.connectionName)
                    /\ r.GRANTEE = ToUpper(m.grantee)}

\* C24: a Read of a connection grant whose query succeeds keeps the record
\* exactly when the connection-privilege view holds a row for the
\* upper-cased (connection name, grantee), and returns the same with the
\* object-privilege view emptied.
C24_ConnectionReadUsesConnectionView ==
    (result # NoResult /\ ~result.queryError)
    => /\ result.response.state # NoRecord <=> ConnectionKeyRows(args.cat, args.state) # {}
       /\ result.response.state =
            ConnectionGrantRead(args.state, [args.cat EXCEPT !.obj = {}], FALSE).state
       /\ ~result.response.error

\* A Read has removed a record that the object-privilege view names and
\* the connection-privilege view does not.
C24_Witness ==
    /\ result # NoResult
    /\ ~result.queryError
    /\ result.response.state = NoRecord
    /\ args.cat.conn # {}
    /\ \E r \in args.cat.obj : /\ r.OBJECT_NAME = ToUpper(args.state.connectionName)
                               /\ r.GRANTEE = ToUpper(args.state.grantee)

\* C25: the Delete of an object privilege issues one REVOKE for each
\* privilege of the stored record, in the order of the list and whether or
\* not an earlier REVOKE has failed; a failing REVOKE makes the Delete
\* report an error.
C25_DeleteRevokesEveryPrivilege ==
    (kind = "object_privilege" /\ last.op = "Delete")
    => /\ Len(last.log) = Len(last.before.privileges)
       /\ \A i \in DOMAIN last.log :
            /\ last.log[i].stmt.verb = "REVOKE"
            /\ last.log[i].stmt.what = ToUpper(last.before.privileges[i])
            /\ last.log[i].stmt.grantee = ToUpper(last.before.grantee)
            /\ last.log[i].stmt.objType = ToUpper(last.before.objectType)
            /\ last.log[i].stmt.objName = qualify(last.before.objectName)
       /\ last.error <=> \E i \in DOMAIN last.log : ~last.log[i].ok

\* A Delete whose first REVOKE failed has gone on to revoke another
\* privilege of the list.
C25_Witness ==
    /\ kind = "object_privilege"
    /\ last.op = "Delete"
    /\ Len(last.log) > 1
    /\ ~last.log[1].ok
    /\ last.log[Len(last.log)].ok
    /\ last.error

\* C26: after every successful Create, Read, Update or ImportState of any
\* grant kind, the identifier of the record the operation hands back is
\* the identifier function of the resource applied to the fields of that
\* record.
C26_IdFollowsFields ==
    (/\ last.op \in {"Create", "Read", "Update", "ImportState"}
     /\ ~last.error
     /\ last.after # NoRecord)
    => last.after.id = identifierOf(kind, last.after)

\* The same for Create, Read and Update, which all recompute the identifier.
C26_IdFollowsFieldsOutsideImport ==
    (/\ last.op \in {"Create", "Read", "Update"}
     /\ ~last.error
     /\ last.after # NoRecord)
    => /\ last.after.id = identifierOf(kind, last.after)
       /\ st = last.after

\* An ImportState has stored the identifier as typed, which is not the
\* identifier of the fields it has stored.
C26_Witness ==
    /\ last.op = "ImportState"
    /\ ~last.error
    /\ st = last.after
    /\ st.id = args.id
    /\ st.id # identifierOf(kind, st)

\* The text holds a letter of the password.
ShowsPassword(text, password) ==
    \E i \in DOMAIN text : \E j \in DOMAIN password :
       password[j] \in PasswordLetters /\ text[i] = password[j]

\* C27: the text logged for a CREATE or ALTER of a user or a connection
\* that carries IDENTIFIED BY with a password holds no character of the
\* password, whatever the password is.
C27_NoPasswordInLog ==
    result # NoResult => ~ShowsPassword(result.entry.logged, args.password)

\* The same for a connection whose password holds no quote.
C27_ConnectionPasswordWithoutQuoteRedacted ==
    (/\ result # NoResult
     /\ result.op \in {"ConnectionResource.Create", "ConnectionResource.Update"}
     /\ \A j \in DOMAIN args.password : args.password[j] \notin Quotes)
    => /\ ~ShowsPassword(result.entry.logged, args.password)
       /\ \E i \in DOMAIN result.entry.logged : result.entry.logged[i] = k_REDACTED

\* UserResource.Create has logged its statement with the password in it.
C27_Witness ==
    /\ result # NoResult
    /\ result.op = "UserResource.Create"
    /\ result.entry.logged = result.entry.sql
    /\ ShowsPassword(result.entry.logged, args.password)

\* The declaration m with the admin option unset where it is false and
\* false where it is unset.
OtherSpelling(m) == [m EXCEPT !.admin = IF @ = "null" THEN "false" ELSE "null"]

\* C28: for a system privilege and a role grant an unset admin option and
\* an admin option of false are the same declaration: Create runs the same
\* GRANT, without WITH ADMIN OPTION, and stores the same identifier for
\* both, and an Update from one to the other runs no statement.
C28_UnsetAdminIsFalse ==
    /\ (/\ kind \in {"system_privilege", "role_grant"}
        /\ last.op = "Create"
        /\ ~last.fault
        /\ last.plan.admin \in {"null", "false"})
       => /\ Len(last.log) = 1
          /\ ~last.log[1].stmt.admin
          /\ CreateOp(kind, build, OtherSpelling(last.plan), last.cat, 0, server).log = last.log
          /\ CreateOp(kind, build, OtherSpelling(last.plan), last.cat, 0, server).state.id
               = last.after.id
    /\ (/\ kind \in {"system_privilege", "role_grant"}
        /\ last.op = "Update"
        /\ last.before.admin \in {"null", "false"}
        /\ last.plan = OtherSpelling(DeclOf(last.before)))
       => /\ last.log = <<>>
          /\ ~last.error
          /\ cat = last.cat
          /\ last.after.id = last.before.id

\* An Update from false to unset has stored the new declaration and run
\* nothing.
C28_Witness ==
    /\ kind \in {"system_privilege", "role_grant"}
    /\ last.op = "Update"
    /\ last.before.admin = "false"
    /\ last.plan = OtherSpelling(DeclOf(last.before))
    /\ last.after.admin = "null"
    /\ last.log = <<>>

\* C29: in the statements of a Create or an Update, a GRANT carries WITH
\* ADMIN OPTION exactly when it is the GRANT of a system privilege, a role
\* grant or a legacy SYSTEM grant whose plan sets the admin option to true;
\* the GRANTs of object privileges and connection grants never carry it, and
\* no REVOKE of any operation does.
C29_AdminClauseIffExplicitlyTrue ==
    /\ last.op \in {"Create", "Update"} =>
         \A i \in DOMAIN last.log :
            last.log[i].stmt.verb = "GRANT" =>
               (last.log[i].stmt.admin <=>
                  /\ kind \in {"system_privilege", "role_grant", "grant"}
                  /\ last.plan.admin = "true"
                  /\ kind = "grant" => ToUpper(last.plan.privilegeType) = s_SYSTEM)
    /\ \A i \in DOMAIN last.log :
          last.log[i].stmt.verb = "REVOKE" => ~last.log[i].stmt.admin

\* An Update has granted WITH ADMIN OPTION a grant whose stored record did
\* not have it.
C29_Witness ==
    /\ last.op = "Update"
    /\ last.plan.admin = "true"
    /\ last.before.admin # "true"
    /\ Len(last.log) = 2
    /\ last.log[2].stmt.verb = "GRANT"
    /\ last.log[2].stmt.admin
    /\ last.log[2].ok

\* The declaration m of a legacy grant cannot be rendered as a GRANT: its
\* privilege type is neither SYSTEM nor OBJECT, it is an OBJECT grant
\* without object type or object name, or its grantee is invalid.
Unrenderable(m) ==
    \/ ToUpper(m.privilegeType) \notin {s_SYSTEM, s_OBJECT}
    \/ /\ ToUpper(m.privilegeType) = s_OBJECT
       /\ IsNullString(m.objectType) \/ IsNullString(m.objectName)
    \/ ~isValidIdentifier(m.granteeName)

\* C30: an Update of a legacy grant whose planned declaration cannot be
\* rendered as a GRANT executes no statement, the REVOKE of the stored
\* grant included.
C30_UnrenderablePlanRunsNothing ==
    (kind = "grant" /\ last.op = "Update" /\ Unrenderable(last.plan))
    => last.log = <<>> /\ last.error /\ cat = last.cat

\* An Update has revoked the stored grant and then found that the planned
\* one cannot be rendered.
C30_Witness ==
    /\ kind = "grant"
    /\ build = "unnamed/part_011"
    /\ last.op = "Update"
    /\ Unrenderable(last.plan)
    /\ buildGrantSQL(build, last.plan).err
    /\ Len(last.log) = 1
    /\ last.log[1].stmt.verb = "REVOKE"
    /\ last.log[1].ok
    /\ last.error
    /\ st = last.before
    /\ cat # last.cat

\* C31: the object the GRANTs of an object privilege's Create name, the
\* object its Read looks up and the object name in its identifier are one
\* upper-cased name, however the declaration spells object_name.
C31_OneObjectName ==
    (kind = "object_privilege" /\ last.op = "Create" /\ ~last.error)
    => \A i \in DOMAIN last.log :
          Unquote(last.log[i].stmt.objName) = ToUpper(last.after.objectName)

\* A Read has removed the record of an object privilege declared with a
\* lower-case object name while the catalog holds, for the object as the
\* GRANT named it, every privilege of the record.
C31_Witness ==
    /\ kind = "object_privilege"
    /\ last.op = "Read"
    /\ ~last.fault
    /\ last.after = NoRecord
    /\ last.before.objectName # ToUpper(last.before.objectName)
    /\ last.before.privileges # <<>>
    /\ \A i \in DOMAIN last.before.privileges :
          ObjRows(last.cat, ToUpper(last.before.grantee), ToUpper(last.before.privileges[i]),
                  ToUpper(last.before.objectType), last.before.objectName) # {}

\* C32: for a system privilege or role grant whose admin option is
\* declared, a Read that finds the grant stores the admin option the catalog
\* holds for it, and an Update whose record differs from the plan in the
\* admin option only issues one REVOKE and then one GRANT, after which the
\* catalog holds the planned option; so the Read after the Update stores the
\* declared value again.
C32_AdminDriftRestored ==
    /\ (/\ kind \in {"system_privilege", "role_grant"}
        /\ last.op = "Read"
        /\ ~last.error
        /\ last.after # NoRecord
        /\ ~IsNull(last.before.admin))
       => (last.after.admin = "true" <=> GrantedWithAdmin(kind, last.cat, last.before))
    /\ (/\ kind \in {"system_privilege", "role_grant"}
        /\ last.op = "Update"
        /\ ~last.error
        /\ ~IsNull(last.plan.admin)
        /\ NamedPair(kind, last.plan) = NamedPair(kind, last.before)
        /\ ValueBool(last.plan.admin) # ValueBool(last.before.admin))
       => /\ Len(last.log) = 2
          /\ last.log[1].stmt.verb = "REVOKE"
          /\ last.log[2].stmt.verb = "GRANT"
          /\ GrantedWithAdmin(kind, cat, last.plan) <=> last.plan.admin = "true"
          /\ last.after.admin = last.plan.admin

\* After the admin option of a system privilege declared with
\* with_admin_option = true was taken away out-of-band and restored, a Read
\* of the record holding true has stored false although the catalog holds
\* the grant WITH ADMIN OPTION.
C32_Witness ==
    /\ kind = "system_privilege"
    /\ changesLeft = 0
    /\ decl.admin = "true"
    /\ last.op = "Read"
    /\ ~last.error
    /\ last.before.admin = "true"
    /\ GrantedWithAdmin(kind, last.cat, last.before)
    /\ last.after.admin = "false"

\* Record m of an object privilege holds a strict, non-empty subset of the
\* privileges of declaration d for the same grantee and object.
Drifted(m, d) ==
    /\ m # NoRecord
    /\ d # NoDecl
    /\ ~ObjectPrivilegeTargetChanged(d, m)
    /\ m.privileges # <<>>
    /\ SeqToSet(MapUpper(m.privileges)) \subseteq SeqToSet(MapUpper(d.privileges))
    /\ SeqToSet(MapUpper(m.privileges)) # SeqToSet(MapUpper(d.privileges))

\* The last call was an Update that succeeded on a drifted record, and the
\* record was the one a Read leaves on the catalog the Update started from.
UpdatedDrifted ==
    /\ kind = "object_privilege"
    /\ last.op = "Update"
    /\ ~last.error
    /\ Drifted(last.before, last.plan)
    /\ ObjectPrivilegeRead(last.before, last.cat, 0).state = last.before

\* C33: a successful Update of an object privilege whose record is the
\* strict subset of the declared privileges that Read found issues a successful GRANT for
\* every missing privilege and stores the declared list with the
\* declaration's identifier; a Read that follows it on the catalog the
\* Update left, with no failing query, stores the declared list and the
\* declaration's identifier again.
C33_DriftedLeadsToReconciled ==
    /\ [](UpdatedDrifted =>
            /\ \A p \in SeqToSet(MapUpper(last.plan.privileges))
                         \ SeqToSet(MapUpper(last.before.privileges)) :
                 \E i \in DOMAIN last.log :
                    /\ last.log[i].stmt.verb = "GRANT"
                    /\ last.log[i].stmt.what = p
                    /\ last.log[i].ok
            /\ last.after.privileges = last.plan.privileges
            /\ last.after.id = objectPrivilegeID(last.plan))
    /\ [][(/\ UpdatedDrifted
           /\ last'.op = "Read"
           /\ ~last'.fault
           /\ \E order \in ObjectPrivilegeOrders(last.plan, last.before) :
                 cat = ObjectPrivilegeUpdate(last.plan, last.before, last.cat, 0,
                                             server.allExpands, order).cat)
          => /\ st' # NoRecord
             /\ st'.privileges = last.plan.privileges
             /\ st'.id = objectPrivilegeID(last.plan)]_vars

\* An Update has granted the privileges that an out-of-band REVOKE had
\* taken from the catalog and a Read from the record: the catalog holds every
\* declared privilege and the record is the declared one.
C33_Witness ==
    /\ UpdatedDrifted
    /\ changesLeft = 0
    /\ last.plan = decl
    /\ Len(last.before.privileges) < Len(decl.privileges)
    /\ last.log # <<>>
    /\ st.privileges = decl.privileges
    /\ st.id = objectPrivilegeID(decl)
    /\ ObjectPrivilegeRead(st, cat, 0).state = st
\* C34: every stored record of an object privilege has a non-empty
\* privileges list.
C34_StoredPrivilegesNonEmpty ==
    (kind = "object_privilege" /\ st # NoRecord) => st.privileges # <<>>

\* A Create of an object privilege declared with an empty privileges list
\* has issued no statement, reported no error and stored the record.
C34_Witness ==
    /\ kind = "object_privilege"
    /\ last.op = "Create"
    /\ ~last.error
    /\ last.log = <<>>
    /\ st # NoRecord
    /\ st.privileges = <<>>
    /\ st.id = objectPrivilegeID(last.plan)

\* The parts of object name obj with their surrounding quotes removed.
TrimmedParts(obj) ==
    [i \in 1..Len(SplitOn(obj, ".", <<>>)) |-> Trim(SplitOn(obj, ".", <<>>)[i], DQ)]

\* C35: for every object name, what qualify renders is read by the server
\* as a sequence of quoted identifiers separated by dots and nothing else,
\* one identifier per dot-separated part of the name, each identifier being
\* that part without its surrounding quotes (a double quote inside a part is
\* doubled in the rendering).
C35_QualifyRendersQuotedIdentifiers ==
    result # NoResult
    => /\ ReadName(result.rendered, "start", <<>>, <<>>).ok
       /\ ReadName(result.rendered, "start", <<>>, <<>>).ids = TrimmedParts(args.obj)

\* The same property for the qualify that escapes the parts it cannot
\* validate.
C35_ValidatedQualifyRendersQuotedIdentifiers ==
    (result # NoResult /\ args.build = "unnamed/part_014")
    => /\ ReadName(result.rendered, "start", <<>>, <<>>).ok
       /\ ReadName(result.rendered, "start", <<>>, <<>>).ids = TrimmedParts(args.obj)

\* The qualify of helpers.go has rendered a name with a double quote inside
\* a part, the quote is not doubled, and the server does not read the
\* rendering as a name.
C35_Witness ==
    /\ result # NoResult
    /\ args.build = "internal/resources/helpers.go"
    /\ args.obj = <<"a", DQ, ";">>
    /\ result.rendered = <<DQ, "a", DQ, ";", DQ>>
    /\ ~ReadName(result.rendered, "start", <<>>, <<>>).ok

\* C36: a Read of any grant kind leaves the catalog as it was and executes
\* no statement, whether it finds the grant, finds nothing or its query
\* fails.
C36_ReadLeavesCatalog ==
    [][(last'.op = "Read" /\ last' # last)
       => /\ cat' = cat
          /\ last'.cat = cat
          /\ last'.log = <<>>]_vars

\* A Read has found nothing for its record and removed it, and the catalog,
\* which holds rows, is the one the Read started from.
C36_Witness ==
    /\ last.op = "Read"
    /\ ~last.error
    /\ last.before # NoRecord
    /\ st = NoRecord
    /\ last.log = <<>>
    /\ cat = last.cat
    /\ cat # EmptyCatalog

\* C37: the delete mutex is held only by a Delete that has taken it and not
\* yet returned, whatever way it leaves its body, so it is free when no
\* Delete runs; and under fair scheduling every Delete that has been started
\* acquires the mutex if it takes it and returns.
C37_MutexReleasedAndAcquired ==
    /\ [](\A i \in Deleters :
             deleteMutex = i => /\ dpc[i] \in {"statements"} \cup DeleteExits
                                /\ DeleteLocks(dkind[i], build))
    /\ []((\A i \in Deleters : dpc[i] = "idle") => deleteMutex = 0)
    /\ \A i \in Deleters : (dpc[i] = "entry") ~> (dpc[i] = "idle")

\* A Delete that took the mutex has left its body before any statement and
\* still holds the mutex, while another Delete waits for it.
C37_Witness ==
    \E i, j \in Deleters :
       /\ dpc[i] = "rejected" /\ deleteMutex = i
       /\ dpc[j] = "entry" /\ DeleteLocks(dkind[j], build)

\* C38: when the k-th GRANT of the Create of an object privilege fails, it
\* is the last statement the Create issues: the k-1 statements before it are
\* the successful GRANTs of the first k-1 declared privileges, no REVOKE is
\* issued, the error is reported and no record is stored.
C38_CreateStopsAtFailingGrant ==
    (/\ kind = "object_privilege"
     /\ last.op = "Create"
     /\ \E k \in DOMAIN last.log : ~last.log[k].ok)
    => /\ ~last.log[Len(last.log)].ok
       /\ Len(last.log) <= Len(last.plan.privileges)
       /\ \A i \in DOMAIN last.log :
             /\ last.log[i].stmt.verb = "GRANT"
             /\ last.log[i].stmt.what = ToUpper(last.plan.privileges[i])
             /\ i < Len(last.log) => last.log[i].ok
       /\ last.error
       /\ last.after = NoRecord
       /\ st = NoRecord

\* The Create of an object privilege with three privileges has failed on
\* its second GRANT: two statements were issued and nothing is stored.
C38_Witness ==
    /\ kind = "object_privilege"
    /\ last.op = "Create"
    /\ Len(last.plan.privileges) = 3
    /\ Len(last.log) = 2
    /\ last.log[1].ok
    /\ ~last.log[2].ok
    /\ last.error
    /\ st = NoRecord
    /\ cat.obj # {}

\* The number of statements the Update of an object privilege has to issue
\* for plan and stored record m: every stored and every planned privilege
\* if the target changes, the two differences otherwise.
UpdateStatements(plan, m) ==
    IF ObjectPrivilegeTargetChanged(plan, m)
    THEN Len(m.privileges) + Len(plan.privileges)
    ELSE Cardinality(RevokedPrivileges(m.privileges, plan.privileges))
         + Cardinality(GrantedPrivileges(m.privileges, plan.privileges))

\* Statement i of the last call failed and was a statement of verb v.
FailedAt(i, v) == ~last.log[i].ok /\ last.log[i].stmt.verb = v

\* C39: in the Update of an object privilege a failing REVOKE is not
\* reported as an error and does not end the call: unless a GRANT fails,
\* every REVOKE and every GRANT of the Update is issued, no error is
\* reported and the planned record is stored; a failing GRANT is the last
\* statement of the call, is reported and leaves the stored record as it was.
C39_OnlyFailingGrantAbortsUpdate ==
    (kind = "object_privilege" /\ last.op = "Update")
    => /\ \A i \in DOMAIN last.log : FailedAt(i, "REVOKE") => last.log[i].onErr = "warn"
       /\ last.error <=> \E i \in DOMAIN last.log : FailedAt(i, "GRANT")
       /\ ~last.error
            => /\ Len(last.log) = UpdateStatements(last.plan, last.before)
               /\ last.after = ObjectPrivilegeRecord(last.plan, last.plan.privileges)
       /\ last.error
            => /\ FailedAt(Len(last.log), "GRANT")
               /\ \A i \in 1..(Len(last.log) - 1) : ~FailedAt(i, "GRANT")
               /\ last.after = last.before

\* An Update of an object privilege has had its first REVOKE fail, has gone
\* on to a GRANT that succeeded, reported no error and stored the plan.
C39_Witness ==
    /\ kind = "object_privilege"
    /\ last.op = "Update"
    /\ Len(last.log) > 1
    /\ FailedAt(1, "REVOKE")
    /\ last.log[Len(last.log)].stmt.verb = "GRANT"
    /\ last.log[Len(last.log)].ok
    /\ ~last.error
    /\ st = ObjectPrivilegeRecord(last.plan, last.plan.privileges)

====
